---- MODULE Spec2Model ----
(***************************************************************************)
(* Model of the origin analysis service: the batch fetcher                 *)
(* (smartAnalyzeForOrigin), the in-memory processor                        *)
(* (processSmartAnalyzeResults), the pipeline (runOriginAnalysisPipeline)  *)
(* and the retry orchestrator (runOriginAnalysisWithRetry).                *)
(*                                                                         *)
(* JavaScript objects are functions with string domains; a key that is not *)
(* in the domain is an absent (undefined) property.  Every company result  *)
(* object carries a field "ref", its object identity: two list entries     *)
(* with the same ref are the same JavaScript object, so a mutation made    *)
(* through one list is seen through every other list that holds it.        *)
(* Wall-clock fields (executionTime, processedAt, ...) and the formatted   *)
(* successRate are not modelled.                                           *)
(***************************************************************************)
EXTENDS Integers, Sequences, FiniteSets, TLC

\* ------------------------------------------------------------------ bounds
MaxRoster == 2
MaxRetriesBound == 3
\* most driver records in one API document handed to the processor alone
MaxDrivers == 2

\* --------------------------------------------------------- JavaScript values
UNDEFINED == "<undefined>"
JsNull == "<null>"
NULL == [isNull |-> TRUE]

Falsy(v) == v \in {"", UNDEFINED, JsNull}

Get(obj, key) == IF key \in DOMAIN obj THEN obj[key] ELSE UNDEFINED

Or(a, b) == IF Falsy(a) THEN b ELSE a

Assign(obj, key, val) ==
  (key :> val) @@ obj

\* the element of a one-element set
The(S) == CHOOSE y \in S : TRUE

\* ------------------------------------------------------- error messages
\* An error message is a sequence of tokens; the string it stands for is the
\* concatenation of the tokens.  WS is a run of white space.
WS == " "

RECURSIVE TrimLeft(_)
TrimLeft(m) == IF m # <<>> /\ Head(m) = WS THEN TrimLeft(Tail(m)) ELSE m

RECURSIVE TrimRight(_)
TrimRight(m) ==
  IF m # <<>> /\ m[Len(m)] = WS THEN TrimRight(SubSeq(m, 1, Len(m) - 1)) ELSE m

Trim(m) == TrimRight(TrimLeft(m))

StartsWith(m, p) == Len(p) <= Len(m) /\ SubSeq(m, 1, Len(p)) = p

Exact(n, k) == [name |-> <<n>>, key |-> k, prefix |-> FALSE]

ERROR_FILTERS == <<
  Exact("SEQUENTIAL ID BREAK WARNING", "sequentialIdBreak"),
  Exact("ENGINE HOURS HAVE CHANGED AFTER SHUT DOWN WARNING", "engineHoursAfterShutdown"),
  Exact("ODOMETER ERROR", "odometerError"),
  Exact("DIAGNOSTIC EVENT", "diagnosticEvent"),
  Exact("LOCATION CHANGED ERROR", "locationChangedError"),
  Exact("INCORRECT INTERMEDIATE PLACEMENT ERROR", "incorrectIntermediatePlacementError"),
  Exact("ENGINE HOURS WARNING", "engineHoursWarning"),
  Exact("NO SHUT DOWN ERROR", "noShutdownError"),
  Exact("EXCESSIVE LOG IN WARNING", "excessiveLogInWarning"),
  Exact("EXCESSIVE LOG OUT WARNING", "excessiveLogOutWarning"),
  Exact("TWO IDENTICAL STATUSES ERROR", "twoIdenticalStatusesError"),
  Exact("DRIVING ORIGIN WARNING", "drivingOriginWarning"),
  Exact("NO DATA IN ODOMETER OR ENGINE HOURS ERROR", "noDataInOdometerOrEngineHours"),
  Exact("LOCATION ERROR", "locationError"),
  Exact("LOCATION DID NOT CHANGE WARNING", "locationDidNotChangeWarning"),
  Exact("MISSING INTERMEDIATE ERROR", "missingIntermediateError"),
  Exact("INCORRECT STATUS PLACEMENT ERROR", "incorrectStatusPlacementError"),
  [name |-> <<"THE SPEED WAS", "MUCH", "HIGHER THAN THE SPEED", "LIMIT IN">>,
   key |-> "speedMuchHigherThanLimit", prefix |-> TRUE],
  [name |-> <<"THE SPEED WAS", "HIGHER THAN THE SPEED">>,
   key |-> "speedHigherThanLimit", prefix |-> TRUE],
  Exact("EVENT HAS MANUAL LOCATION", "eventHasManualLocation"),
  Exact("NO POWER UP ERROR", "noPowerUpError"),
  Exact("UNIDENTIFIED DRIVER EVENT", "unidentifiedDriverEvent")
>>

FilterKeys == {ERROR_FILTERS[i].key : i \in 1..Len(ERROR_FILTERS)}

\* filter.match(errorMessage): falsy messages (absent, null, "") never match
match(filter, errorMessage) ==
  /\ errorMessage # <<>>
  /\ IF filter.prefix
       THEN StartsWith(Trim(errorMessage), filter.name)
       ELSE Trim(errorMessage) = filter.name

LogMessage(log) == IF "errorMessage" \in DOMAIN log THEN log.errorMessage ELSE <<>>

\* index of the first rule of ERROR_FILTERS that matches the log, 0 if none
FirstMatch(log) ==
  LET hits == {i \in 1..Len(ERROR_FILTERS) : match(ERROR_FILTERS[i], LogMessage(log))}
  IN IF hits = {} THEN 0 ELSE CHOOSE i \in hits : \A j \in hits : i <= j

\* ------------------------------------------------- smartAnalyzeProcessor.js
CompanyKey(company) == Or(Get(company, "companyId"), Get(company, "companyName"))

DriverKey(driver) == Or(Get(driver, "driverName"), Get(driver, "driverId"))

\* the values of the Map uniqueCompanies, in insertion order
RECURSIVE UniqueCompanies(_, _)
UniqueCompanies(results, seen) ==
  IF results = <<>> THEN <<>>
  ELSE LET company == Head(results)
           key == CompanyKey(company)
       IN IF key \in seen
            THEN UniqueCompanies(Tail(results), seen)
            ELSE <<company>> \o UniqueCompanies(Tail(results), seen \cup {key})

\* a stage that drops nothing
KeepEveryCompany(results) == results

removeDuplicateCompanies(results) ==
  IF results = <<>> THEN results ELSE UniqueCompanies(results, {})

\* the values of the Map uniqueDrivers, in insertion order; a later driver
\* with a key already present has its logs appended to the retained driver
RECURSIVE UniqueDrivers(_, _)
UniqueDrivers(data, unique) ==
  IF data = <<>> THEN unique
  ELSE LET driver == Head(data)
           key == DriverKey(driver)
           at == {i \in 1..Len(unique) : DriverKey(unique[i]) = key}
       IN IF at = {}
            THEN UniqueDrivers(Tail(data), Append(unique, driver))
            ELSE LET i == CHOOSE j \in at : TRUE
                     existing == unique[i]
                     merged == IF "logs" \in DOMAIN driver /\ "logs" \in DOMAIN existing
                                 THEN Assign(existing, "logs", existing.logs \o driver.logs)
                                 ELSE existing
                 IN UniqueDrivers(Tail(data), [unique EXCEPT ![i] = merged])

\* a stage that leaves the driver list as it is
KeepEveryDriver(company) == company

\* a merge that also appends the logs of the first record to themselves
AppendsOwnLogs(company) ==
  IF "data" \notin DOMAIN company THEN company
  ELSE Assign(company, "data",
         [i \in 1..Len(company.data) |->
            IF "logs" \in DOMAIN company.data[i]
              THEN Assign(company.data[i], "logs",
                          company.data[i].logs \o company.data[i].logs)
              ELSE company.data[i]])

\* body of removeDuplicateDrivers for one company object
DedupDriversOf(company) ==
  IF "data" \notin DOMAIN company THEN company
  ELSE Assign(company, "data", UniqueDrivers(company.data, <<>>))

\* a filter that removes nothing
KeepEveryLog(log) == TRUE

KeepLog(log) == FirstMatch(log) = 0

\* body of filterErrorMessages for one company object
FilterLogsOf(company) ==
  IF "data" \notin DOMAIN company THEN company
  ELSE Assign(company, "data",
         [i \in 1..Len(company.data) |->
            LET driver == company.data[i]
            IN IF "logs" \notin DOMAIN driver THEN driver
               ELSE Assign(driver, "logs", SelectSeq(driver.logs, KeepLog))])

\* body of removeEmptyDrivers for one company object
\* a test that keeps every driver with a logs array
HasLogsArray(driver) == "logs" \in DOMAIN driver

HasLogs(driver) == "logs" \in DOMAIN driver /\ Len(driver.logs) > 0

PruneDriversOf(company) ==
  IF "data" \notin DOMAIN company THEN company
  ELSE Assign(company, "data", SelectSeq(company.data, HasLogs))

ZeroStats ==
  [totalLogsProcessed |-> 0, totalLogsRemoved |-> 0,
   warningsRemoved |-> [k \in FilterKeys |-> 0],
   companiesProcessed |-> 0, driversProcessed |-> 0]

\* an accumulation that loses the removals counted before
AddForgetsRemoved(a, b) ==
  [totalLogsProcessed |-> a.totalLogsProcessed + b.totalLogsProcessed,
   totalLogsRemoved |-> b.totalLogsRemoved,
   warningsRemoved |-> [k \in FilterKeys |-> a.warningsRemoved[k] + b.warningsRemoved[k]],
   companiesProcessed |-> a.companiesProcessed + b.companiesProcessed,
   driversProcessed |-> a.driversProcessed + b.driversProcessed]

AddStats(a, b) ==
  [totalLogsProcessed |-> a.totalLogsProcessed + b.totalLogsProcessed,
   totalLogsRemoved |-> a.totalLogsRemoved + b.totalLogsRemoved,
   warningsRemoved |-> [k \in FilterKeys |-> a.warningsRemoved[k] + b.warningsRemoved[k]],
   companiesProcessed |-> a.companiesProcessed + b.companiesProcessed,
   driversProcessed |-> a.driversProcessed + b.driversProcessed]

DriverHasLogsArray(driver) == "logs" \in DOMAIN driver

\* what filterErrorMessages adds to stats for one company object
CompanyStats(company) ==
  IF "data" \notin DOMAIN company THEN ZeroStats
  ELSE LET withLogs == SelectSeq(company.data, DriverHasLogsArray)
           logsOf == UNION {{<<d, j>> : j \in 1..Len(withLogs[d].logs)} : d \in 1..Len(withLogs)}
           \* <<driver, log, n>>: the log is removed by rule n of ERROR_FILTERS
           removed == {t \in {<<p[1], p[2], FirstMatch(withLogs[p[1]].logs[p[2]])>> : p \in logsOf} :
                         t[3] # 0}
       IN [totalLogsProcessed |-> Cardinality(logsOf),
           totalLogsRemoved |-> Cardinality(removed),
           warningsRemoved |->
             [k \in FilterKeys |-> Cardinality({t \in removed : ERROR_FILTERS[t[3]].key = k})],
           companiesProcessed |-> 1,
           driversProcessed |-> Len(withLogs)]

RECURSIVE SumStats(_)
SumStats(s) == IF s = <<>> THEN ZeroStats ELSE AddStats(Head(s), SumStats(Tail(s)))

Holds(list, company) == \E n \in 1..Len(list) : list[n].ref = company.ref

\* one pass of removeDuplicateDrivers over one result array, seen from one
\* company object
VisitDedup(list, company) ==
  The({IF Holds(list, c) THEN DedupDriversOf(c) ELSE c : c \in {company}})

\* one pass of filterErrorMessages over one result array
VisitFilter(list, company) ==
  The({IF Holds(list, c) THEN FilterLogsOf(c) ELSE c : c \in {company}})

\* one pass of removeEmptyDrivers over one result array
VisitPrune(list, company) ==
  The({IF Holds(list, c) THEN PruneDriversOf(c) ELSE c : c \in {company}})

Present(data, key) == IF key \in DOMAIN data THEN data[key] ELSE <<>>

\* Each stage runs over successfulResults, then allResults, then failedResults,
\* and mutates the company objects in place.  An object held by several of the
\* arrays is therefore visited once per array that holds it; the passes over
\* one object are composed here in the order the code makes them.
processSmartAnalyzeResults(data) ==
  LET \* FILTER 1: remove duplicate companies
      succ == removeDuplicateCompanies(Present(data, "successfulResults"))
      all == removeDuplicateCompanies(Present(data, "allResults"))
      fail == removeDuplicateCompanies(Present(data, "failedResults"))
      \* FILTER 2: remove duplicate drivers
      d1(c) == VisitDedup(succ, c)
      d2(c) == VisitDedup(all, d1(c))
      d3(c) == VisitDedup(fail, d2(c))
      \* FILTER 3: filter error messages
      f1(c) == VisitFilter(succ, d3(c))
      f2(c) == VisitFilter(all, f1(c))
      f3(c) == VisitFilter(fail, f2(c))
      stats == AddStats(SumStats([n \in 1..Len(succ) |-> CompanyStats(d3(succ[n]))]),
               AddStats(SumStats([n \in 1..Len(all) |-> CompanyStats(f1(all[n]))]),
                        SumStats([n \in 1..Len(fail) |-> CompanyStats(f2(fail[n]))])))
      \* FILTER 4: remove empty drivers
      p1(c) == VisitPrune(succ, f3(c))
      p2(c) == VisitPrune(all, p1(c))
      p3(c) == VisitPrune(fail, p2(c))
      processingStats ==
        [totalLogsProcessed |-> stats.totalLogsProcessed,
         totalLogsRemoved |-> stats.totalLogsRemoved,
         remainingLogs |-> stats.totalLogsProcessed - stats.totalLogsRemoved,
         companiesProcessed |-> stats.companiesProcessed,
         driversProcessed |-> stats.driversProcessed,
         warningsRemoved |-> stats.warningsRemoved]
  IN [k \in DOMAIN data |->
        CASE k = "successfulResults" -> [n \in 1..Len(succ) |-> p3(succ[n])]
          [] k = "allResults" -> [n \in 1..Len(all) |-> p3(all[n])]
          [] k = "failedResults" -> [n \in 1..Len(fail) |-> p3(fail[n])]
          [] k = "summary" ->
               Assign(Assign(data.summary, "filtersApplied",
                        [n \in 1..Len(ERROR_FILTERS) |-> ERROR_FILTERS[n].name]),
                      "processingStats", processingStats)
          [] OTHER -> data[k]]

\* ------------------------------------------- processSmartAnalyzeResults.js
\* The standalone script: JSON.parse of the input file, the four stages at
\* module level, JSON.stringify of data to the output file.  FILTER 3 is
\* called on data.allResults only; the calls on the two other arrays are
\* commented out.  Its stats are printed and not written to the file.
ProcessorScript(data) ==
  LET \* FILTER 1: remove duplicate companies
      succ == removeDuplicateCompanies(Present(data, "successfulResults"))
      all == removeDuplicateCompanies(Present(data, "allResults"))
      fail == removeDuplicateCompanies(Present(data, "failedResults"))
      \* FILTER 2: remove duplicate drivers
      d1(c) == VisitDedup(succ, c)
      d2(c) == VisitDedup(all, d1(c))
      d3(c) == VisitDedup(fail, d2(c))
      \* FILTER 3: filterErrorMessages(data.allResults)
      f2(c) == VisitFilter(all, d3(c))
      \* FILTER 4: remove empty drivers
      p1(c) == VisitPrune(succ, f2(c))
      p2(c) == VisitPrune(all, p1(c))
      p3(c) == VisitPrune(fail, p2(c))
  IN [k \in DOMAIN data |->
        CASE k = "successfulResults" -> [n \in 1..Len(succ) |-> p3(succ[n])]
          [] k = "allResults" -> [n \in 1..Len(all) |-> p3(all[n])]
          [] k = "failedResults" -> [n \in 1..Len(fail) |-> p3(fail[n])]
          [] k = "summary" ->
               Assign(data.summary, "filtersApplied",
                      [n \in 1..Len(ERROR_FILTERS) |-> ERROR_FILTERS[n].name])
          [] OTHER -> data[k]]

\* removeDuplicateDrivers(results): every company object of the array
removeDuplicateDrivers(results) ==
  [n \in 1..Len(results) |-> DedupDriversOf(results[n])]

\* filterErrorMessages(results, stats): the array and stats after the call
filterErrorMessages(results, stats) ==
  [results |-> [n \in 1..Len(results) |-> FilterLogsOf(results[n])],
   stats |-> AddStats(stats, SumStats([n \in 1..Len(results) |-> CompanyStats(results[n])]))]

\* removeEmptyDrivers(results): every company object of the array
removeEmptyDrivers(results) ==
  [n \in 1..Len(results) |-> PruneDriversOf(results[n])]

\* ------------------------------------------------------------ environment
\* The roster file authEndpointResponse.json: per origin an ordered list of
\* company descriptors with pairwise distinct ids.
Company(n) == [id |-> "Company:" \o ToString(n), name |-> "Name" \o ToString(n)]

RosterOf(n) == [k \in 1..n |-> Company(k)]

AuthFiles ==
  {[results |-> <<[origin |-> "HERO3", companies |-> <<Company(9)>>],
                  [origin |-> "HERO", companies |-> RosterOf(n)]>>] : n \in 0..MaxRoster}

RequestedOrigins == {"HERO", "HERO2"}

Log(m) == [errorMessage |-> m]

DocClean ==
  <<[driverId |-> "d1", driverName |-> "Ann", logs |-> <<Log(<<"REAL EVENT">>)>>]>>

DocNoisy ==
  <<[driverId |-> "d2", driverName |-> "Bob",
     logs |-> <<Log(<<"SEQUENTIAL ID BREAK WARNING">>), Log(<<"REAL EVENT">>)>>],
    [driverId |-> "d2", driverName |-> "Bob",
     logs |-> <<Log(<<WS, "ODOMETER ERROR">>), Log(<<"FORM ERROR">>)>>],
    [driverId |-> "d3", driverName |-> "Cy",
     logs |-> <<Log(<<"THE SPEED WAS", "HIGHER THAN THE SPEED", "LIMIT IN", "ZONE">>)>>]>>

\* documents the remote API may answer with
Docs == {DocClean, DocNoisy}

\* errors a remote call may reject with
Errs ==
  {[message |-> "timeout of 120000ms exceeded"],
   [message |-> "Request failed with status code 500",
    response |-> [data |-> "Internal Server Error"]]}

\* ------------------------------------------------------------------ state
VARIABLES
  authData,           \* content of the roster file
  origin,             \* argument of runOriginAnalysisWithRetry
  options,            \* maxRetries, verbose, retryFailedIndividually,
                      \* saveProcessedToFile
  pc,                 \* control point of the run
  attempt,            \* let attempt
  bestResult,         \* let bestResult
  companies,          \* smartAnalyzeForOrigin: const companies
  promises,           \* smartAnalyzeForOrigin: const promises
  failedCompanies,    \* phase 2: const failedCompanies
  individualRetries,  \* phase 2: const individualRetries
  i,                  \* phase 2: loop index (0-based)
  error,              \* the error the run rejected with
  fetchLog,           \* every smartAnalyze call issued, in order
  batchCalls,         \* number of runOriginAnalysisPipeline calls made
  delaysWaited,       \* number of delay(2000) calls made
  attemptLog,         \* outcome of every batch attempt made, in order
  settlements,        \* how each promise of the batch in progress settled
  outstanding,        \* positions in fetchLog of the calls not yet settled
  settleOrder,        \* the promises of the batch in progress, as they settled
  progress,           \* smartAnalyzeForOrigin: completedCount, successCount,
                      \* failedCount and the progress lines printed
  failedOnce,         \* ids of the companies a fetch of which has rejected
  succeededLater,     \* ids whose fetch resolved after one had rejected
  fn,                 \* the function of the program that is exercised
  arg,                \* processor exercised alone: the argument of the call
  ret,                \* processor exercised alone: what the call leaves
  active,             \* two runs: the run whose locals the variables above hold
  peer,               \* two runs: the locals of the run that is not executing
  cron                \* analyzeAllOrigins: its locals and the calls it made

vars == <<authData, origin, options, pc, attempt, bestResult, companies, promises,
          failedCompanies, individualRetries, i, error, fetchLog, batchCalls,
          delaysWaited, attemptLog, settlements, outstanding, settleOrder,
          progress, failedOnce, succeededLater, fn, arg, ret,
          active, peer, cron>>

reduceVars == <<fn, arg, ret>>

pairVars == <<active, peer>>

runVars == <<authData, origin, options, reduceVars, pairVars, cron>>

\* analyzeAllOrigins has not been called
CronIdle == [pc |-> "idle"]

phase2Vars == <<failedCompanies, individualRetries, i>>

entityHistory == <<failedOnce, succeededLater>>

inFlight == <<settlements, outstanding, settleOrder, progress, entityHistory>>

\* let completedCount = 0; let successCount = 0; let failedCount = 0;
ZeroProgress ==
  [completedCount |-> 0, successCount |-> 0, failedCount |-> 0, logged |-> <<>>]

\* if (verbose) console.log(`[${completedCount}/${companies.length}] ...`)
LogProgress(p, verbose) ==
  IF verbose THEN [p EXCEPT !.logged = Append(@, p.completedCount)] ELSE p

\* a catch handler that forgets completedCount++
RejectedNotCompleted(p, verbose) ==
  LogProgress([p EXCEPT !.failedCount = @ + 1], verbose)

\* .then: completedCount++; successCount++; the progress line
OnFulfilled(p, verbose) ==
  LogProgress([p EXCEPT !.completedCount = @ + 1, !.successCount = @ + 1], verbose)

\* .catch: completedCount++; failedCount++; the progress line
OnRejected(p, verbose) ==
  LogProgress([p EXCEPT !.completedCount = @ + 1, !.failedCount = @ + 1], verbose)

Init ==
  /\ authData \in AuthFiles
  /\ origin \in RequestedOrigins
  /\ options \in [maxRetries : 1..MaxRetriesBound, verbose : BOOLEAN,
                  retryFailedIndividually : BOOLEAN, saveProcessedToFile : BOOLEAN]
  /\ pc = "while"
  /\ attempt = 0
  /\ bestResult = NULL
  /\ companies = <<>>
  /\ promises = <<>>
  /\ failedCompanies = <<>>
  /\ individualRetries = <<>>
  /\ i = 0
  /\ error = NULL
  /\ fetchLog = <<>>
  /\ batchCalls = 0
  /\ delaysWaited = 0
  /\ attemptLog = <<>>
  /\ settlements = <<>>
  /\ outstanding = {}
  /\ settleOrder = <<>>
  /\ progress = ZeroProgress
  /\ failedOnce = {}
  /\ succeededLater = {}
  /\ fn = "runOriginAnalysisWithRetry"
  /\ arg = NULL
  /\ ret = NULL
  /\ active = "A"
  /\ peer = NULL
  /\ cron = CronIdle

\* --------------------------------------------------------- fortexBatch.js
\* a lookup that falls back to the first roster entry
FirstOrigin(data, name) == data.results[1]

\* authData.results.find((result) => result.origin === origin)
FindOrigin(data, name) ==
  LET at == {k \in 1..Len(data.results) : data.results[k].origin = name}
  IN IF at = {} THEN NULL
     ELSE data.results[CHOOSE k \in at : \A j \in at : k <= j]

SuccessEntry(ref, company, data) ==
  [ref |-> ref, status |-> "success", companyName |-> company.name,
   companyId |-> company.id, data |-> data]

\* a catch handler that does not copy the message
FailedWithoutMessage(ref, company, err) ==
  [ref |-> ref, status |-> "failed", companyName |-> company.name,
   companyId |-> company.id, error |-> UNDEFINED, errorDetails |-> JsNull]

FailedEntry(ref, company, err) ==
  [ref |-> ref, status |-> "failed", companyName |-> company.name,
   companyId |-> company.id, error |-> err.message,
   errorDetails |-> IF "response" \in DOMAIN err
                      THEN Or(Get(err.response, "data"), JsNull) ELSE JsNull]

IsSuccess(r) == r.status = "success"

IsFailed(r) == r.status = "failed"

\* a batch whose allResults holds the successes only
OmitsFailedFromAll(name, roster, results) ==
  LET successResults == SelectSeq(results, IsSuccess)
      failedResults == SelectSeq(results, IsFailed)
  IN [summary |-> [origin |-> name,
                   totalCompanies |-> Len(roster),
                   successful |-> Len(successResults),
                   failed |-> Len(failedResults)],
      successfulResults |-> successResults,
      failedResults |-> failedResults,
      allResults |-> successResults]

\* a batch that lists the results from the last company to the first
LastCompanyFirst(name, roster, results) ==
  LET reversed == [k \in 1..Len(results) |-> results[Len(results) + 1 - k]]
      successResults == SelectSeq(reversed, IsSuccess)
      failedResults == SelectSeq(reversed, IsFailed)
  IN [summary |-> [origin |-> name,
                   totalCompanies |-> Len(roster),
                   successful |-> Len(successResults),
                   failed |-> Len(failedResults)],
      successfulResults |-> successResults,
      failedResults |-> failedResults,
      allResults |-> reversed]

\* the object smartAnalyzeForOrigin returns once Promise.all has resolved
BatchResult(name, roster, results) ==
  LET successResults == SelectSeq(results, IsSuccess)
      failedResults == SelectSeq(results, IsFailed)
  IN [summary |-> [origin |-> name,
                   totalCompanies |-> Len(roster),
                   successful |-> Len(successResults),
                   failed |-> Len(failedResults)],
      successfulResults |-> successResults,
      failedResults |-> failedResults,
      allResults |-> results]

Pending == [state |-> "pending"]

\* smartAnalyze resolved with data / rejected with err
Resolved(data) == [state |-> "resolved", data |-> data]

Rejected(err) == [state |-> "rejected", err |-> err]

Fulfilled(v) == [state |-> "fulfilled", value |-> v]

\* a wait that ends with the first promise
FirstSettled(ps) == IF ps = <<>> THEN TRUE ELSE ps[1].state = "fulfilled"

\* await Promise.all(promises)
AllSettled(ps) == \A k \in 1..Len(ps) : ps[k].state = "fulfilled"

\* ------------------------------------------------ originAnalysisPipeline.js
\* runOriginAnalysisPipeline, from the resolved batch to its return value
PipelineResult(name, roster, results) ==
  processSmartAnalyzeResults(BatchResult(name, roster, results))

\* ----------------------------------------------- originAnalysisWithRetry.js
\* a loop bound that is off by one
WhileInclusive(att, maxRetries) == att <= maxRetries

\* while (attempt < maxRetries)
WhileCondition(att, maxRetries) == att < maxRetries

\* a loop that keeps the latest result whatever it holds
KeepLatest(best, result) == result

\* if (!bestResult || result.summary.successful > bestResult.summary.successful)
KeepBest(best, result) ==
  IF best = NULL \/ result.summary.successful > best.summary.successful
    THEN result ELSE best

\* a loop without the early exit on failedCount === 0
ContinueRegardless(result, opts, att) ==
  IF opts.verbose /\ att < opts.maxRetries THEN "delay" ELSE "while"

\* where control goes after a batch attempt has returned a result
AfterResult(result, opts, att) ==
  IF result.summary.failed = 0 THEN "phase2"
  ELSE IF opts.verbose /\ att < opts.maxRetries THEN "delay"
  ELSE "while"

\* a catch block that never rethrows
SwallowAlways(best) == "while"

\* the catch block of the attempt: rethrow only without a best result
AfterThrow(best) == IF best = NULL THEN "thrown" ELSE "while"

\* a phase 2 guard that ignores the option
IgnoresOption(opts, best) == best.summary.failed > 0

\* if (retryFailedIndividually && bestResult.summary.failed > 0)
IndividualPhase(opts, best) ==
  opts.retryFailedIndividually /\ best.summary.failed > 0

RetrySuccess(ref, company, data) ==
  [ref |-> ref, status |-> "success", companyName |-> company.companyName,
   companyId |-> company.companyId, data |-> data]

RetryFailed(ref, company, err) ==
  [ref |-> ref, status |-> "failed", companyName |-> company.companyName,
   companyId |-> company.companyId, error |-> err.message]

\* a merge that forgets the companies still failing
DropsStillFailed(best, newSuccesses, stillFailed) ==
  LET successfulResults == best.successfulResults \o newSuccesses
  IN [k \in DOMAIN best |->
        CASE k = "successfulResults" -> successfulResults
          [] k = "failedResults" -> <<>>
          [] k = "allResults" -> successfulResults
          [] OTHER -> best[k]]

\* a merge that puts the recovered companies in front
PrependRecovered(best, newSuccesses, stillFailed) ==
  LET successfulResults == newSuccesses \o best.successfulResults
  IN [k \in DOMAIN best |->
        CASE k = "successfulResults" -> successfulResults
          [] k = "failedResults" -> stillFailed
          [] k = "allResults" -> successfulResults \o stillFailed
          [] OTHER -> best[k]]

\* a merge that leaves the failure list as the batch returned it
KeepFailedList(best, newSuccesses, stillFailed) ==
  LET successfulResults == best.successfulResults \o newSuccesses
  IN [k \in DOMAIN best |->
        CASE k = "successfulResults" -> successfulResults
          [] k = "allResults" -> successfulResults \o stillFailed
          [] OTHER -> best[k]]

\* the lists of bestResult once the individual successes are merged in
MergedLists(best, newSuccesses, stillFailed) ==
  LET successfulResults == best.successfulResults \o newSuccesses
  IN [k \in DOMAIN best |->
        CASE k = "successfulResults" -> successfulResults
          [] k = "failedResults" -> stillFailed
          [] k = "allResults" -> successfulResults \o stillFailed
          [] OTHER -> best[k]]

\* a merge that leaves the summary of the batch attempt
StaleSummary(best) == best

\* "Update summary" after the merged data was reprocessed
UpdateSummary(best) ==
  The({Assign(b, "summary",
         Assign(Assign(Assign(b.summary,
           "successful", Len(b.successfulResults)),
           "failed", Len(b.failedResults)),
           "totalCompanies", Len(b.allResults))) : b \in {best}})

\* a merge that does not reprocess the merged data
MergeWithoutReduction(best, retries) ==
  LET newSuccesses == SelectSeq(retries, IsSuccess)
      stillFailed == SelectSeq(retries, IsFailed)
  IN IF Len(newSuccesses) > 0
       THEN UpdateSummary(MergedLists(best, newSuccesses, stillFailed))
       ELSE best

\* bestResult after the individual retry loop
MergeIndividualRetries(best, retries) ==
  LET newSuccesses == SelectSeq(retries, IsSuccess)
      stillFailed == SelectSeq(retries, IsFailed)
  IN IF Len(newSuccesses) > 0
       THEN UpdateSummary(processSmartAnalyzeResults(
              MergedLists(best, newSuccesses, stillFailed)))
       ELSE best

\* bestResult.summary.retryMetadata = {...}
WithRetryMetadata(best, opts, att) ==
  Assign(best, "summary",
    Assign(best.summary, "retryMetadata",
      [totalAttempts |-> att,
       maxRetries |-> opts.maxRetries,
       individualRetryUsed |-> opts.retryFailedIndividually]))

BatchFetch(att, id) == [phase |-> "batch", attempt |-> att, companyId |-> id]

IndividualFetch(att, id) == [phase |-> "individual", attempt |-> att, companyId |-> id]

Threw == [outcome |-> "threw"]

Returned(result) ==
  [outcome |-> "result", successful |-> result.summary.successful,
   failed |-> result.summary.failed]

\* a phase 2 that retries every company of the batch
RetryEveryCompany(best) == best.allResults

\* a phase 2 that goes through the failures from the last to the first
LastFailureFirst(best) ==
  [k \in 1..Len(best.failedResults) |->
     best.failedResults[Len(best.failedResults) + 1 - k]]

\* const failedCompanies = bestResult.failedResults
FailedCompaniesOf(best) == best.failedResults

\* ---------------------------------------------------------------- actions
\* while (attempt < maxRetries) { attempt++; ... runOriginAnalysisPipeline(
WhileEnter ==
  /\ pc = "while"
  /\ WhileCondition(attempt, options.maxRetries)
  /\ attempt' = attempt + 1
  /\ batchCalls' = batchCalls + 1
  /\ pc' = "pipeline"
  /\ UNCHANGED <<runVars, inFlight, bestResult, companies, promises, phase2Vars, error,
                 fetchLog, delaysWaited, attemptLog>>

\* the loop ends because attempt reached maxRetries
WhileExit ==
  /\ pc = "while"
  /\ ~WhileCondition(attempt, options.maxRetries)
  /\ pc' = "phase2"
  /\ UNCHANGED <<runVars, inFlight, attempt, bestResult, companies, promises, phase2Vars,
                 error, fetchLog, batchCalls, delaysWaited, attemptLog>>

\* the batch attempt throws; the catch block of the retry loop handles it
AttemptThrows(message) ==
  /\ pc' = AfterThrow(bestResult)
  /\ error' = IF AfterThrow(bestResult) = "thrown" THEN [message |-> message] ELSE error
  /\ attemptLog' = Append(attemptLog, Threw)
  /\ UNCHANGED <<runVars, inFlight, attempt, bestResult, companies, promises, phase2Vars,
                 fetchLog, batchCalls, delaysWaited>>

\* fs.readFile rejects or JSON.parse throws
ReadAuthFileFails ==
  /\ pc = "pipeline"
  /\ AttemptThrows("ENOENT: no such file or directory")

\* if (!originData) throw new Error(`Origin "${origin}" not found. ...`)
OriginNotFound ==
  /\ pc = "pipeline"
  /\ FindOrigin(authData, origin) = NULL
  /\ AttemptThrows("Origin not found")

\* companies.map(... smartAnalyze(origin, company.id) ...): one call per company
LaunchRequests ==
  /\ pc = "pipeline"
  /\ FindOrigin(authData, origin) # NULL
  /\ LET roster == FindOrigin(authData, origin).companies
     IN /\ companies' = roster
        /\ promises' = [k \in 1..Len(roster) |-> Pending]
        /\ fetchLog' = fetchLog \o [k \in 1..Len(roster) |-> BatchFetch(attempt, roster[k].id)]
        /\ settlements' = [k \in 1..Len(roster) |-> Pending]
        /\ settleOrder' = <<>>
        /\ progress' = ZeroProgress
        /\ UNCHANGED entityHistory
        /\ outstanding' = outstanding \cup {Len(fetchLog) + k : k \in 1..Len(roster)}
  /\ pc' = "batch"
  /\ UNCHANGED <<runVars, attempt, bestResult, phase2Vars, error, batchCalls,
                 delaysWaited, attemptLog>>

\* .then((data) => ({status: "success", ...}))
FetchResolves(k, data) ==
  /\ pc = "batch"
  /\ k \in 1..Len(promises)
  /\ promises[k] = Pending
  /\ promises' = [promises EXCEPT
                    ![k] = Fulfilled(SuccessEntry(<<attempt, k>>, companies[k], data))]
  /\ settlements' = [settlements EXCEPT ![k] = Resolved(data)]
  /\ settleOrder' = Append(settleOrder, k)
  /\ progress' = OnFulfilled(progress, options.verbose)
  /\ succeededLater' = succeededLater \cup ({companies[k].id} \cap failedOnce)
  /\ failedOnce' = failedOnce
  /\ outstanding' = outstanding \ {Len(fetchLog) - Len(promises) + k}
  /\ UNCHANGED <<runVars, pc, attempt, bestResult, companies, phase2Vars, error,
                 fetchLog, batchCalls, delaysWaited, attemptLog>>

\* .catch((error) => ({status: "failed", ...}))
FetchRejects(k, err) ==
  /\ pc = "batch"
  /\ k \in 1..Len(promises)
  /\ promises[k] = Pending
  /\ promises' = [promises EXCEPT
                    ![k] = Fulfilled(FailedEntry(<<attempt, k>>, companies[k], err))]
  /\ settlements' = [settlements EXCEPT ![k] = Rejected(err)]
  /\ settleOrder' = Append(settleOrder, k)
  /\ progress' = OnRejected(progress, options.verbose)
  /\ failedOnce' = failedOnce \cup {companies[k].id}
  /\ succeededLater' = succeededLater
  /\ outstanding' = outstanding \ {Len(fetchLog) - Len(promises) + k}
  /\ UNCHANGED <<runVars, pc, attempt, bestResult, companies, phase2Vars, error,
                 fetchLog, batchCalls, delaysWaited, attemptLog>>

\* Promise.all resolves; the pipeline processes the batch and returns it to
\* the retry loop, which keeps the best result and decides how to go on
BatchSettled ==
  /\ pc = "batch"
  /\ AllSettled(promises)
  /\ \E result \in {PipelineResult(origin, companies,
                                     [k \in 1..Len(promises) |-> promises[k].value])} :
       LET next == AfterResult(result, options, attempt)
       IN /\ bestResult' = KeepBest(bestResult, result)
          /\ attemptLog' = Append(attemptLog, Returned(result))
          /\ delaysWaited' = IF next = "delay" THEN delaysWaited + 1 ELSE delaysWaited
          /\ pc' = next
  /\ companies' = <<>>
  /\ promises' = <<>>
  /\ settlements' = <<>>
  /\ settleOrder' = <<>>
  /\ progress' = ZeroProgress
  /\ UNCHANGED entityHistory
  /\ UNCHANGED <<runVars, attempt, phase2Vars, error, fetchLog, batchCalls,
                 outstanding>>

\* await delay(2000) is over
DelayElapsed ==
  /\ pc = "delay"
  /\ pc' = "while"
  /\ UNCHANGED <<runVars, inFlight, attempt, bestResult, companies, promises, phase2Vars,
                 error, fetchLog, batchCalls, delaysWaited, attemptLog>>

\* Phase 2 is entered: const failedCompanies = bestResult.failedResults
Phase2Enter ==
  /\ pc = "phase2"
  /\ IndividualPhase(options, bestResult)
  /\ failedCompanies' = FailedCompaniesOf(bestResult)
  /\ individualRetries' = <<>>
  /\ i' = 0
  /\ pc' = "for"
  /\ UNCHANGED <<runVars, inFlight, attempt, bestResult, companies, promises, error,
                 fetchLog, batchCalls, delaysWaited, attemptLog>>

Phase2Skip ==
  /\ pc = "phase2"
  /\ ~IndividualPhase(options, bestResult)
  /\ pc' = "finish"
  /\ UNCHANGED <<runVars, inFlight, attempt, bestResult, companies, promises, phase2Vars,
                 error, fetchLog, batchCalls, delaysWaited, attemptLog>>

\* await smartAnalyze(origin, company.companyId) is issued for failedCompanies[i]
RetryIssue ==
  /\ pc = "for"
  /\ i < Len(failedCompanies)
  /\ fetchLog' = Append(fetchLog, IndividualFetch(attempt, failedCompanies[i + 1].companyId))
  /\ outstanding' = outstanding \cup {Len(fetchLog) + 1}
  /\ pc' = "retrying"
  /\ UNCHANGED <<runVars, settlements, settleOrder, progress, entityHistory, attempt, bestResult, companies, promises, phase2Vars,
                 error, batchCalls, delaysWaited, attemptLog>>

\* after the push: delay(1000) unless this was the last failed company
AfterRetry ==
  IF i < Len(failedCompanies) - 1
    THEN pc' = "retryDelay" /\ i' = i
    ELSE pc' = "for" /\ i' = i + 1

RetryResolves(data) ==
  /\ pc = "retrying"
  /\ individualRetries' =
       Append(individualRetries, RetrySuccess(<<0, i + 1>>, failedCompanies[i + 1], data))
  /\ outstanding' = outstanding \ {Len(fetchLog)}
  /\ succeededLater' = succeededLater \cup ({failedCompanies[i + 1].companyId} \cap failedOnce)
  /\ failedOnce' = failedOnce
  /\ AfterRetry
  /\ UNCHANGED <<runVars, settlements, settleOrder, progress, attempt, bestResult, companies, promises, failedCompanies,
                 error, fetchLog, batchCalls, delaysWaited, attemptLog>>

RetryRejects(err) ==
  /\ pc = "retrying"
  /\ individualRetries' =
       Append(individualRetries, RetryFailed(<<0, i + 1>>, failedCompanies[i + 1], err))
  /\ outstanding' = outstanding \ {Len(fetchLog)}
  /\ failedOnce' = failedOnce \cup {failedCompanies[i + 1].companyId}
  /\ succeededLater' = succeededLater
  /\ AfterRetry
  /\ UNCHANGED <<runVars, settlements, settleOrder, progress, attempt, bestResult, companies, promises, failedCompanies,
                 error, fetchLog, batchCalls, delaysWaited, attemptLog>>

\* await delay(1000) is over; i++
RetryDelayElapsed ==
  /\ pc = "retryDelay"
  /\ i' = i + 1
  /\ pc' = "for"
  /\ UNCHANGED <<runVars, inFlight, attempt, bestResult, companies, promises, failedCompanies,
                 individualRetries, error, fetchLog, batchCalls, delaysWaited,
                 attemptLog>>

\* the for loop is over: merge the individual successes back into bestResult
Merge ==
  /\ pc = "for"
  /\ ~(i < Len(failedCompanies))
  /\ bestResult' = MergeIndividualRetries(bestResult, individualRetries)
  /\ pc' = "finish"
  /\ UNCHANGED <<runVars, inFlight, attempt, companies, promises, phase2Vars, error,
                 fetchLog, batchCalls, delaysWaited, attemptLog>>

\* retryMetadata is attached; bestResult is returned unless it is saved first
Finish ==
  /\ pc = "finish"
  /\ bestResult' = WithRetryMetadata(bestResult, options, attempt)
  /\ pc' = IF options.saveProcessedToFile THEN "save" ELSE "returned"
  /\ UNCHANGED <<runVars, inFlight, attempt, companies, promises, phase2Vars, error,
                 fetchLog, batchCalls, delaysWaited, attemptLog>>

\* if (saveProcessedToFile): fs.mkdir and fs.writeFile resolve; return bestResult
SaveResolves ==
  /\ pc = "save"
  /\ pc' = "returned"
  /\ UNCHANGED <<runVars, inFlight, attempt, bestResult, companies, promises, phase2Vars,
                 error, fetchLog, batchCalls, delaysWaited, attemptLog>>

\* fs.mkdir or fs.writeFile rejects: nothing catches it, the run rejects
SaveRejects ==
  /\ pc = "save"
  /\ pc' = "thrown"
  /\ error' = [message |-> "EACCES: permission denied"]
  /\ UNCHANGED <<runVars, inFlight, attempt, bestResult, companies, promises, phase2Vars,
                 fetchLog, batchCalls, delaysWaited, attemptLog>>

Next ==
  \/ WhileEnter
  \/ WhileExit
  \/ ReadAuthFileFails
  \/ OriginNotFound
  \/ LaunchRequests
  \/ \E k \in 1..MaxRoster, data \in Docs : FetchResolves(k, data)
  \/ \E k \in 1..MaxRoster, err \in Errs : FetchRejects(k, err)
  \/ BatchSettled
  \/ DelayElapsed
  \/ Phase2Enter
  \/ Phase2Skip
  \/ RetryIssue
  \/ \E data \in Docs : RetryResolves(data)
  \/ \E err \in Errs : RetryRejects(err)
  \/ RetryDelayElapsed
  \/ Merge
  \/ Finish
  \/ SaveResolves
  \/ SaveRejects

Spec == Init /\ [][Next]_vars

\* ------------------------------------------- the processor exercised alone
\* Driver records as the remote API may send them: same driverName under
\* different ids, a record without logs, a record without driverName whose
\* driverId is another record's name, logs that are all noise, no logs, a
\* record without any id.
Ann ==
  [driverId |-> "d1", driverName |-> "Ann",
   logs |-> <<Log(<<"REAL EVENT">>), Log(<<"ODOMETER ERROR", WS>>)>>]

AnnAgain ==
  [driverId |-> "d7", driverName |-> "Ann", logs |-> <<Log(<<"FORM ERROR">>)>>]

AnnBare == [driverId |-> "d1", driverName |-> "Ann"]

Nameless ==
  [driverId |-> "Ann", logs |-> <<Log(<<"SEQUENTIAL ID BREAK WARNING">>)>>]

Cy ==
  [driverId |-> "d3", driverName |-> "Cy",
   logs |-> <<Log(<<"THE SPEED WAS", "MUCH", "HIGHER THAN THE SPEED", "LIMIT IN", "ZONE">>)>>]

Dee == [driverId |-> "d4", driverName |-> "Dee", logs |-> <<>>]

\* a record with neither driverName nor driverId
Anon == [logs |-> <<Log(<<"DIAGNOSTIC EVENT">>), Log(<<"REAL EVENT">>)>>]

Drivers == {Ann, AnnAgain, AnnBare, Nameless, Cy, Dee, Anon}

DriverLists == UNION {[1..n -> Drivers] : n \in 0..MaxDrivers}

\* the first result of a batch: any document, or a failure
FirstEntries ==
  {SuccessEntry(<<1, 1>>, [id |-> "c1", name |-> "N1"], data) : data \in DriverLists}
    \cup {FailedEntry(<<1, 1>>, [id |-> "c1", name |-> "N1"], err) : err \in Errs}

\* the second result: the same companyId again, a company without companyId
\* whose name is the first one's id, another company, a failure, a result
\* without companyId and companyName, a company whose companyId is the empty
\* string and whose name is the first one's id
SecondEntries ==
  {SuccessEntry(<<1, 2>>, [id |-> "c1", name |-> "N1 again"], DocNoisy),
   [ref |-> <<1, 2>>, status |-> "success", companyName |-> "c1", data |-> DocClean],
   SuccessEntry(<<1, 2>>, [id |-> "c2", name |-> "N2"], DocClean),
   FailedEntry(<<1, 2>>, [id |-> "c2", name |-> "N2"],
               [message |-> "timeout of 120000ms exceeded"]),
   [ref |-> <<1, 2>>, status |-> "success", data |-> DocNoisy],
   SuccessEntry(<<1, 2>>, [id |-> "", name |-> "c1"], DocClean)}

ResultArrays ==
  {<<a>> : a \in FirstEntries} \cup {<<a, b>> : a \in FirstEntries, b \in SecondEntries}

\* JSON.parse of a saved batch: the three arrays hold separate objects
Parsed(batch) ==
  [k \in DOMAIN batch |->
     IF k \in {"successfulResults", "failedResults"}
       THEN [n \in 1..Len(batch[k]) |-> Assign(batch[k][n], "ref", <<2, batch[k][n].ref[2]>>)]
       ELSE batch[k]]

\* batches as smartAnalyzeForOrigin hands them over in memory (allResults
\* holds the objects of the two other arrays) and as read back from a file
RawBatches ==
  LET inMemory == {BatchResult("HERO", RosterOf(Len(rs)), rs) : rs \in ResultArrays}
  IN inMemory \cup {Parsed(batch) : batch \in inMemory}

ResultKeys == {"successfulResults", "allResults", "failedResults"}

InitReduce ==
  /\ authData = [results |-> <<>>]
  /\ origin = "HERO"
  /\ options = [maxRetries |-> 1, verbose |-> FALSE, retryFailedIndividually |-> FALSE,
                saveProcessedToFile |-> FALSE]
  /\ pc = "reduce"
  /\ attempt = 0
  /\ bestResult = NULL
  /\ companies = <<>>
  /\ promises = <<>>
  /\ failedCompanies = <<>>
  /\ individualRetries = <<>>
  /\ i = 0
  /\ error = NULL
  /\ fetchLog = <<>>
  /\ batchCalls = 0
  /\ delaysWaited = 0
  /\ attemptLog = <<>>
  /\ settlements = <<>>
  /\ outstanding = {}
  /\ settleOrder = <<>>
  /\ progress = ZeroProgress
  /\ failedOnce = {}
  /\ succeededLater = {}
  /\ fn = "none"
  /\ arg \in RawBatches
  /\ ret = NULL
  /\ active = "A"
  /\ peer = NULL
  /\ cron = CronIdle

\* everything but the call record
restVars ==
  <<authData, origin, options, pc, attempt, bestResult, companies, promises,
    failedCompanies, individualRetries, i, error, fetchLog, batchCalls, delaysWaited,
    attemptLog, inFlight, pairVars, cron>>

\* data[key] = removeDuplicateCompanies(data[key])
CallRemoveDuplicateCompanies(key) ==
  /\ fn = "none"
  /\ fn' = "removeDuplicateCompanies"
  /\ arg' = arg[key]
  /\ ret' = removeDuplicateCompanies(arg[key])
  /\ UNCHANGED restVars

\* removeDuplicateDrivers(data[key])
CallRemoveDuplicateDrivers(key) ==
  /\ fn = "none"
  /\ fn' = "removeDuplicateDrivers"
  /\ arg' = arg[key]
  /\ ret' = removeDuplicateDrivers(arg[key])
  /\ UNCHANGED restVars

\* filterErrorMessages(data[key], stats) with fresh stats
CallFilterErrorMessages(key) ==
  /\ fn = "none"
  /\ fn' = "filterErrorMessages"
  /\ arg' = arg[key]
  /\ ret' = filterErrorMessages(arg[key], ZeroStats)
  /\ UNCHANGED restVars

\* removeEmptyDrivers(data[key])
CallRemoveEmptyDrivers(key) ==
  /\ fn = "none"
  /\ fn' = "removeEmptyDrivers"
  /\ arg' = arg[key]
  /\ ret' = removeEmptyDrivers(arg[key])
  /\ UNCHANGED restVars

\* processSmartAnalyzeResults(data)
CallProcessSmartAnalyzeResults ==
  /\ fn = "none"
  /\ fn' = "processSmartAnalyzeResults"
  /\ ret' = processSmartAnalyzeResults(arg)
  /\ UNCHANGED <<restVars, arg>>

\* FILTER 1 and FILTER 2 of processSmartAnalyzeResults on data[key]
CallDeduplicate(key) ==
  /\ fn = "none"
  /\ fn' = "deduplicate"
  /\ arg' = arg[key]
  /\ ret' = removeDuplicateDrivers(removeDuplicateCompanies(arg[key]))
  /\ UNCHANGED restVars

\* the same two stages on their own output, as when a batch is processed again
CallDeduplicateAgain ==
  /\ fn = "deduplicate"
  /\ fn' = "deduplicateAgain"
  /\ arg' = ret
  /\ ret' = removeDuplicateDrivers(removeDuplicateCompanies(ret))
  /\ UNCHANGED restVars

\* processSmartAnalyzeResults(data) on the batch an earlier call returned
CallProcessAgain ==
  /\ fn = "processSmartAnalyzeResults"
  /\ fn' = "processAgain"
  /\ arg' = ret
  /\ ret' = processSmartAnalyzeResults(ret)
  /\ UNCHANGED restVars

\* what the individual retries of the companies of a failure list may leave:
\* for each company a success with a document or a failure with an error
RetryOutcomes(failed) ==
  {retries \in [1..Len(failed) ->
                 {RetrySuccess(<<0, n>>, failed[n], data) : n \in 1..Len(failed), data \in Docs}
                   \cup {RetryFailed(<<0, n>>, failed[n], err) : n \in 1..Len(failed), err \in Errs}] :
     \A n \in 1..Len(failed) : retries[n].ref = <<0, n>>}

\* the merge of phase 2 on a processed batch: the recovered companies are
\* appended and the batch is processed again
CallMergeIndividualRetries ==
  /\ fn = "processSmartAnalyzeResults"
  /\ fn' = "mergeIndividualRetries"
  /\ arg' = ret
  /\ \E retries \in RetryOutcomes(ret.failedResults) :
       ret' = MergeIndividualRetries(ret, retries)
  /\ UNCHANGED restVars

\* a batch read from a file: no object is in two of its arrays
FromFile(batch) ==
  \A n \in 1..Len(batch.allResults) :
    ~Holds(batch.successfulResults \o batch.failedResults, batch.allResults[n])

\* node processSmartAnalyzeResults.js <input-file>: the data written to the
\* output file
CallProcessorScript ==
  /\ fn = "none"
  /\ FromFile(arg)
  /\ fn' = "script"
  /\ ret' = ProcessorScript(arg)
  /\ UNCHANGED <<restVars, arg>>

NextReduce ==
  \/ \E key \in ResultKeys : CallRemoveDuplicateCompanies(key)
  \/ \E key \in ResultKeys : CallRemoveDuplicateDrivers(key)
  \/ \E key \in ResultKeys : CallFilterErrorMessages(key)
  \/ \E key \in ResultKeys : CallRemoveEmptyDrivers(key)
  \/ CallProcessSmartAnalyzeResults
  \/ \E key \in ResultKeys : CallDeduplicate(key)
  \/ CallDeduplicateAgain
  \/ CallProcessorScript
  \/ CallProcessAgain
  \/ CallMergeIndividualRetries

SpecReduce == InitReduce /\ [][NextReduce]_vars

\* ------------------------------------------------------ two runs at once
\* Two calls of runOriginAnalysisWithRetry for different origins execute on
\* one event loop.  Everything a run works on is local to its call (let
\* attempt, let bestResult, const individualRetries, the stats object of the
\* processor, the promises of the fetcher); the modules keep no variable but
\* the constant ERROR_FILTERS.  Both runs read the same roster file.
Locals ==
  [origin |-> origin, options |-> options, pc |-> pc, attempt |-> attempt,
   bestResult |-> bestResult, companies |-> companies, promises |-> promises,
   failedCompanies |-> failedCompanies, individualRetries |-> individualRetries,
   i |-> i, error |-> error, fetchLog |-> fetchLog, batchCalls |-> batchCalls,
   delaysWaited |-> delaysWaited, attemptLog |-> attemptLog,
   settlements |-> settlements, outstanding |-> outstanding,
   settleOrder |-> settleOrder, progress |-> progress, failedOnce |-> failedOnce,
   succeededLater |-> succeededLater]

\* runs that keep bestResult in a variable of the module
SharesBestResult(saved, current) == [saved EXCEPT !.bestResult = current.bestResult]

\* what a run finds when the event loop comes back to it: its own locals
Resumed(saved, current) == saved

\* the locals of a call that has just been made
Called(name, opts) ==
  [origin |-> name, options |-> opts, pc |-> "while", attempt |-> 0,
   bestResult |-> NULL, companies |-> <<>>, promises |-> <<>>,
   failedCompanies |-> <<>>, individualRetries |-> <<>>, i |-> 0, error |-> NULL,
   fetchLog |-> <<>>, batchCalls |-> 0, delaysWaited |-> 0, attemptLog |-> <<>>,
   settlements |-> <<>>, outstanding |-> {}, settleOrder |-> <<>>,
   progress |-> ZeroProgress, failedOnce |-> {}, succeededLater |-> {}]

\* options of the first run: both phases, the delay and the save are used
PairOptions ==
  [maxRetries |-> 2, verbose |-> TRUE, retryFailedIndividually |-> TRUE,
   saveProcessedToFile |-> TRUE]

\* options of the second run
PeerOptions ==
  [maxRetries |-> 1, verbose |-> FALSE, retryFailedIndividually |-> TRUE,
   saveProcessedToFile |-> FALSE]

InitPair ==
  /\ authData \in {file \in AuthFiles : Len(FindOrigin(file, "HERO").companies) = MaxRoster}
  /\ origin \in RequestedOrigins
  /\ options = PairOptions
  /\ pc = "while"
  /\ attempt = 0
  /\ bestResult = NULL
  /\ companies = <<>>
  /\ promises = <<>>
  /\ failedCompanies = <<>>
  /\ individualRetries = <<>>
  /\ i = 0
  /\ error = NULL
  /\ fetchLog = <<>>
  /\ batchCalls = 0
  /\ delaysWaited = 0
  /\ attemptLog = <<>>
  /\ settlements = <<>>
  /\ outstanding = {}
  /\ settleOrder = <<>>
  /\ progress = ZeroProgress
  /\ failedOnce = {}
  /\ succeededLater = {}
  /\ fn = "runOriginAnalysisWithRetry"
  /\ arg = NULL
  /\ ret = NULL
  /\ active = "A"
  /\ peer = Called("HERO3", PeerOptions)
  /\ cron = CronIdle

\* the executing run reaches an await and the event loop goes on with the
\* other run
Switch ==
  /\ peer # NULL
  /\ active' = IF active = "A" THEN "B" ELSE "A"
  /\ peer' = Locals
  /\ \E r \in {Resumed(peer, Locals)} :
       /\ origin' = r.origin
       /\ options' = r.options
       /\ pc' = r.pc
       /\ attempt' = r.attempt
       /\ bestResult' = r.bestResult
       /\ companies' = r.companies
       /\ promises' = r.promises
       /\ failedCompanies' = r.failedCompanies
       /\ individualRetries' = r.individualRetries
       /\ i' = r.i
       /\ error' = r.error
       /\ fetchLog' = r.fetchLog
       /\ batchCalls' = r.batchCalls
       /\ delaysWaited' = r.delaysWaited
       /\ attemptLog' = r.attemptLog
       /\ settlements' = r.settlements
       /\ outstanding' = r.outstanding
       /\ settleOrder' = r.settleOrder
       /\ progress' = r.progress
       /\ failedOnce' = r.failedOnce
       /\ succeededLater' = r.succeededLater
  /\ UNCHANGED <<authData, reduceVars, cron>>

NextPair ==
  \/ Next
  \/ Switch

SpecPair == InitPair /\ [][NextPair]_vars

\* ------------------------------------------------- a run that is not held up
\* Every remote fetch settles, every timer of delay() fires, every file
\* operation settles and the event loop runs the continuation of the run:
\* a run that can take a step takes one.
\* The steps of Next other than BatchSettled and Merge.
Continue ==
  \/ WhileEnter
  \/ WhileExit
  \/ ReadAuthFileFails
  \/ OriginNotFound
  \/ LaunchRequests
  \/ \E k \in 1..MaxRoster, data \in Docs : FetchResolves(k, data)
  \/ \E k \in 1..MaxRoster, err \in Errs : FetchRejects(k, err)
  \/ DelayElapsed
  \/ Phase2Enter
  \/ Phase2Skip
  \/ RetryIssue
  \/ \E data \in Docs : RetryResolves(data)
  \/ \E err \in Errs : RetryRejects(err)
  \/ RetryDelayElapsed
  \/ Finish
  \/ SaveResolves
  \/ SaveRejects

\* await Promise.all(promises) resumes: the step BatchSettled, by its guard
\* and the control points it leads to
BatchReturns ==
  /\ pc = "batch"
  /\ AllSettled(promises)
  /\ pc' \in {"phase2", "delay", "while"}

\* the for loop of phase 2 is left: the step Merge, by its guard and the
\* control point it leads to
LoopLeft ==
  /\ pc = "for"
  /\ ~(i < Len(failedCompanies))
  /\ pc' = "finish"

SpecLive ==
  /\ Init
  /\ [][Next]_vars
  /\ WF_vars(Continue)
  /\ WF_pc(BatchReturns)
  /\ WF_pc(LoopLeft)

\* ---------------------------------------------- a roster file that changes
\* authEndpointResponse.json is a file on disk that smartAnalyzeForOrigin
\* reads at every call (fs.readFile, part_003:29-30): whoever maintains the
\* file may replace it between two batch attempts of a run.
RosterFileReplaced ==
  /\ pc \in {"while", "delay"}
  /\ authData' \in AuthFiles \ {authData}
  /\ UNCHANGED <<origin, options, reduceVars, pairVars, cron, pc, attempt, bestResult,
                 companies, promises, phase2Vars, error, fetchLog, batchCalls,
                 delaysWaited, attemptLog, inFlight>>

NextRoster ==
  \/ Next
  \/ RosterFileReplaced

SpecRoster == Init /\ [][NextRoster]_vars

\* -------------------------------------------------------- cronScheduler.js
\* The tenants of src/mock/heroOrigins.js: five entries, their origin names
\* taken from the environment.
heroOrigins == [n \in 1..5 |-> [origin |-> "ORIGIN" \o ToString(n)]]

\* what quickRetryAnalyze may resolve with: a final batch with or without
\* failed companies
FinalBatches == {[summary |-> [failed |-> n]] : n \in 0..1}

\* a catch block that records nothing
DropFailure(results, name, err) == results

\* results.push({origin, success: true, timestamp, data: analysisResult})
PushSuccess(results, name, analysisResult) ==
  Append(results, [origin |-> name, success |-> TRUE, data |-> analysisResult])

\* catch: results.push({origin, success: false, timestamp, error: error.message})
PushFailure(results, name, err) ==
  Append(results, [origin |-> name, success |-> FALSE, error |-> err.message])

\* const summary = {totalOrigins, successful, failed, ...}
CronSummary(results) ==
  [totalOrigins |-> Len(heroOrigins),
   successful |-> Len(SelectSeq(results, LAMBDA r : r.success)),
   failed |-> Len(SelectSeq(results, LAMBDA r : ~r.success))]

\* everything but cron
cronRest ==
  <<authData, origin, options, pc, attempt, bestResult, companies, promises,
    failedCompanies, individualRetries, i, error, fetchLog, batchCalls, delaysWaited,
    attemptLog, inFlight, reduceVars, pairVars>>

InitCron ==
  /\ authData = [results |-> <<>>]
  /\ origin = "HERO"
  /\ options = [maxRetries |-> 6, verbose |-> TRUE, retryFailedIndividually |-> TRUE,
                saveProcessedToFile |-> FALSE]
  /\ pc = "cron"
  /\ attempt = 0
  /\ bestResult = NULL
  /\ companies = <<>>
  /\ promises = <<>>
  /\ failedCompanies = <<>>
  /\ individualRetries = <<>>
  /\ i = 0
  /\ error = NULL
  /\ fetchLog = <<>>
  /\ batchCalls = 0
  /\ delaysWaited = 0
  /\ attemptLog = <<>>
  /\ settlements = <<>>
  /\ outstanding = {}
  /\ settleOrder = <<>>
  /\ progress = ZeroProgress
  /\ failedOnce = {}
  /\ succeededLater = {}
  /\ fn = "analyzeAllOrigins"
  /\ arg = NULL
  /\ ret = NULL
  /\ active = "A"
  /\ peer = NULL
  /\ cron = [pc |-> "for", i |-> 0, results |-> <<>>, started |-> <<>>,
             settled |-> <<>>, running |-> {}, returned |-> NULL]

\* for (let i = 0; i < heroOrigins.length; i++): quickRetryAnalyze(origin.origin)
\* is called
CronCall ==
  /\ cron.pc = "for"
  /\ cron.i < Len(heroOrigins)
  /\ cron' = [cron EXCEPT !.pc = "await",
                          !.started = Append(@, heroOrigins[cron.i + 1].origin),
                          !.running = @ \cup {cron.i + 1}]
  /\ UNCHANGED cronRest

\* after the try/catch: the delay between origins unless this was the last
AfterOrigin(n) == IF n < Len(heroOrigins) - 1 THEN "delay" ELSE "for"

\* the awaited run returns its final batch
CronRunReturns(analysisResult) ==
  /\ cron.pc = "await"
  /\ cron' = [cron EXCEPT
                !.results = PushSuccess(@, heroOrigins[cron.i + 1].origin, analysisResult),
                !.settled = Append(@, Resolved(analysisResult)),
                !.running = @ \ {cron.i + 1},
                !.pc = AfterOrigin(cron.i),
                !.i = IF AfterOrigin(cron.i) = "for" THEN @ + 1 ELSE @]
  /\ UNCHANGED cronRest

\* the awaited run throws
CronRunThrows(err) ==
  /\ cron.pc = "await"
  /\ cron' = [cron EXCEPT
                !.results = PushFailure(@, heroOrigins[cron.i + 1].origin, err),
                !.settled = Append(@, Rejected(err)),
                !.running = @ \ {cron.i + 1},
                !.pc = AfterOrigin(cron.i),
                !.i = IF AfterOrigin(cron.i) = "for" THEN @ + 1 ELSE @]
  /\ UNCHANGED cronRest

\* the 2000 ms between two origins are over; i++
CronDelayElapsed ==
  /\ cron.pc = "delay"
  /\ cron' = [cron EXCEPT !.pc = "for", !.i = @ + 1]
  /\ UNCHANGED cronRest

\* the loop is over: return {summary, results}
CronReturn ==
  /\ cron.pc = "for"
  /\ ~(cron.i < Len(heroOrigins))
  /\ cron' = [cron EXCEPT !.pc = "returned",
                          !.returned = [summary |-> CronSummary(cron.results),
                                        results |-> cron.results]]
  /\ UNCHANGED cronRest

NextCron ==
  \/ CronCall
  \/ \E analysisResult \in FinalBatches : CronRunReturns(analysisResult)
  \/ \E err \in Errs : CronRunThrows(err)
  \/ CronDelayElapsed
  \/ CronReturn

SpecCron == InitCron /\ [][NextCron]_vars

\* ------------------------------------------------------------- properties
Ids(list) == [n \in 1..Len(list) |-> list[n].companyId]

IdSet(list) == {list[n].companyId : n \in 1..Len(list)}

IsIndividual(fetch) == fetch.phase = "individual"

IndividualFetches == SelectSeq(fetchLog, IsIndividual)

ResultsSeen == {k \in 1..Len(attemptLog) : attemptLog[k].outcome = "result"}

ThrowsSeen == {k \in 1..Len(attemptLog) : attemptLog[k] = Threw}

ZeroSeen == \E k \in ResultsSeen : attemptLog[k].failed = 0

OriginAbsent == \A k \in 1..Len(authData.results) : authData.results[k].origin # origin

InIndividualPhase == pc \in {"for", "retrying", "retryDelay"}

NewSuccesses == SelectSeq(individualRetries, IsSuccess)

StillFailed == SelectSeq(individualRetries, IsFailed)

\* some step of the run is possible: BatchSettled and Merge by their guards
CanStep ==
  \/ pc = "batch" /\ AllSettled(promises)
  \/ pc = "for" /\ ~(i < Len(failedCompanies))
  \/ ENABLED (\/ WhileEnter
              \/ WhileExit
              \/ ReadAuthFileFails
              \/ OriginNotFound
              \/ LaunchRequests
              \/ \E k \in 1..MaxRoster, data \in Docs : FetchResolves(k, data)
              \/ \E k \in 1..MaxRoster, err \in Errs : FetchRejects(k, err)
              \/ DelayElapsed
              \/ Phase2Enter
              \/ Phase2Skip
              \/ RetryIssue
              \/ \E data \in Docs : RetryResolves(data)
              \/ \E err \in Errs : RetryRejects(err)
              \/ RetryDelayElapsed
              \/ Finish
              \/ SaveResolves
              \/ SaveRejects)

\* C1: a run with maxRetries >= 1 can only stop by returning or by throwing;
\* what it returns is a batch result whose summary carries a failed count and
\* retryMetadata; it throws only when the first batch attempt threw, so that
\* no best result was retained.
C1_ReturnsOrThrows ==
  /\ pc \notin {"returned", "thrown"} => CanStep
  /\ pc = "returned" =>
       /\ error = NULL
       /\ bestResult # NULL
       /\ {"failed", "retryMetadata"} \subseteq DOMAIN bestResult.summary
       /\ bestResult.summary.failed = Len(bestResult.failedResults)
  /\ pc = "thrown" =>
       /\ error # NULL
       /\ bestResult = NULL
       /\ attempt = 1
       /\ attemptLog = <<Threw>>

\* C1 for the runs whose result file, if one is asked for, can be written:
\* the run stops by returning a batch result whose summary carries a failed
\* count and retryMetadata, or it throws because the first batch attempt
\* threw; any other throw is a rejected save of a best result that is
\* retained with its retryMetadata.
C1_UnlessSaveRejects ==
  /\ pc \notin {"returned", "thrown"} => CanStep
  /\ pc = "returned" =>
       /\ error = NULL
       /\ bestResult # NULL
       /\ {"failed", "retryMetadata"} \subseteq DOMAIN bestResult.summary
       /\ bestResult.summary.failed = Len(bestResult.failedResults)
  /\ pc = "thrown" =>
       /\ error # NULL
       /\ \/ bestResult = NULL /\ attempt = 1 /\ attemptLog = <<Threw>>
          \/ /\ options.saveProcessedToFile
             /\ bestResult # NULL
             /\ "retryMetadata" \in DOMAIN bestResult.summary
             /\ error = [message |-> "EACCES: permission denied"]

\* a run whose only batch attempt returned a result and which threw all the
\* same, when its result file could not be written
C1_SaveRejected ==
  /\ pc = "thrown"
  /\ attemptLog # <<>>
  /\ \A k \in 1..Len(attemptLog) : attemptLog[k].outcome = "result"
  /\ bestResult # NULL

\* C2: the successful count of the best result never decreases, and after
\* every batch attempt it is at least the successful count of every batch
\* result received so far.
C2_BestNeverDecreases ==
  [][bestResult' # NULL =>
       /\ \A k \in ResultsSeen' :
            bestResult'.summary.successful >= attemptLog'[k].successful
       /\ bestResult # NULL =>
            bestResult'.summary.successful >= bestResult.summary.successful]_vars

\* a later batch attempt returned fewer successes than an earlier one
C2_Witness ==
  /\ bestResult # NULL
  /\ \E j \in ResultsSeen, k \in ResultsSeen :
       /\ j < k
       /\ attemptLog[k].successful < attemptLog[j].successful
       /\ bestResult.summary.successful = attemptLog[j].successful

\* C3: attempt is 1 at the first batch attempt, grows by one with every batch
\* attempt and never exceeds maxRetries; retryMetadata.totalAttempts is the
\* number of batch attempts made, those that threw included.
C3_AttemptCounts ==
  /\ attempt = batchCalls
  /\ attempt \in 0..options.maxRetries
  /\ Len(attemptLog) = IF pc \in {"pipeline", "batch"} THEN batchCalls - 1 ELSE batchCalls
  /\ pc = "returned" =>
       /\ bestResult.summary.retryMetadata.totalAttempts = batchCalls
       /\ bestResult.summary.retryMetadata.totalAttempts = Len(attemptLog)
       /\ batchCalls >= 1

\* a run that used every attempt, one of which threw, and returned
C3_Witness ==
  /\ pc = "returned"
  /\ ThrowsSeen # {}
  /\ bestResult.summary.retryMetadata.totalAttempts = options.maxRetries
  /\ options.maxRetries >= 2

\* C4: once a batch attempt returned failed = 0 no further batch attempt is
\* made, no delay is waited, no company is fetched individually and the
\* result returned has failed = 0; if that was the first attempt,
\* totalAttempts is 1.
C4_StopsOnFullSuccess ==
  [][ZeroSeen' =>
       /\ batchCalls' = batchCalls
       /\ delaysWaited' = delaysWaited
       /\ fetchLog' = fetchLog
       /\ IndividualFetches' = <<>>
       /\ pc' \notin {"while", "pipeline", "batch", "delay",
                    "for", "retrying", "retryDelay"}
       /\ bestResult'.summary.failed = 0
       /\ (pc' = "returned" /\ attemptLog'[1].outcome = "result"
             /\ attemptLog'[1].failed = 0) =>
            bestResult'.summary.retryMetadata.totalAttempts = 1]_vars

\* full success at the second of three attempts, with delays and the
\* individual retry switched on: the run returned after two attempts
C4_Witness ==
  /\ pc = "returned"
  /\ ZeroSeen
  /\ Len(attemptLog) = 2
  /\ options.maxRetries = 3
  /\ options.verbose
  /\ options.retryFailedIndividually
  /\ Len(bestResult.allResults) > 0

\* C5: when the attempts are used up and the best result still has failures,
\* the individual retry phase is entered if and only if
\* retryFailedIndividually is true; when it is false no company is ever
\* fetched individually and the run goes straight to its end.
C5_IndividualPhaseIffOption ==
  [][/\ (pc = "phase2" /\ attempt = options.maxRetries
           /\ bestResult.summary.failed > 0) =>
          /\ pc' = "for" <=> options.retryFailedIndividually
          /\ pc' = "finish" <=> ~options.retryFailedIndividually
     /\ ~options.retryFailedIndividually => IndividualFetches' = <<>>]_vars

\* a run that ended with failures left and without the individual phase
C5_Witness ==
  /\ pc = "returned"
  /\ ~options.retryFailedIndividually
  /\ bestResult.summary.failed > 0
  /\ attempt = options.maxRetries
  /\ options.maxRetries >= 2
  /\ IndividualFetches = <<>>

\* C6: when a batch attempt throws while a best result is retained, the run
\* does not throw, the best result stays as it was and the run is back at
\* the head of the loop for the remaining attempts; when it throws while no
\* best result exists, the run throws and takes no further step.
C6_ThrowWithAndWithoutBest ==
  [][/\ pc # "thrown"
     /\ attemptLog' = Append(attemptLog, Threw) =>
          IF bestResult # NULL
            THEN bestResult' = bestResult /\ pc' = "while" /\ error' = NULL
            ELSE bestResult' = NULL /\ pc' = "thrown" /\ error' # NULL]_vars

\* the second of three attempts threw, the first and the third returned
C6_Witness ==
  /\ Len(attemptLog) = 3
  /\ attemptLog[1].outcome = "result"
  /\ attemptLog[2] = Threw
  /\ attemptLog[3].outcome = "result"
  /\ bestResult # NULL

\* C7: when the roster file has no entry for the requested origin the run
\* makes exactly one batch attempt and throws: nothing is fetched, no delay
\* is waited and no attempt is repeated.
C7_OriginAbsentThrows ==
  OriginAbsent =>
    /\ fetchLog = <<>>
    /\ delaysWaited = 0
    /\ batchCalls <= 1
    /\ bestResult = NULL
    /\ pc \in {"while", "pipeline", "thrown"}
    /\ pc = "while" => attempt = 0
    /\ pc = "thrown" => batchCalls = 1 /\ attemptLog = <<Threw>> /\ error # NULL

\* the origin was missing, several attempts were allowed, the run threw
C7_Witness ==
  /\ OriginAbsent
  /\ pc = "thrown"
  /\ error = [message |-> "Origin not found"]
  /\ options.maxRetries > 1

\* C8: in the individual retry phase the companies fetched are those of the
\* best result's failure list, in its order and each exactly once; none of
\* them is in the best result's success list.
C8_RetriesExactlyTheFailed ==
  /\ Cardinality(IdSet(failedCompanies)) = Len(failedCompanies)
  /\ Len(IndividualFetches) <= Len(failedCompanies)
  /\ \A n \in 1..Len(IndividualFetches) :
       IndividualFetches[n].companyId = failedCompanies[n].companyId
  /\ InIndividualPhase =>
       /\ failedCompanies = bestResult.failedResults
       /\ IdSet(IndividualFetches) \cap IdSet(bestResult.successfulResults) = {}
  /\ pc \in {"finish", "returned"} => Ids(IndividualFetches) = Ids(failedCompanies)

\* the loop over the failed companies is over and the best result holds
\* companies that succeeded in the batch
C8_Witness ==
  /\ pc = "for"
  /\ i = Len(failedCompanies)
  /\ Len(IndividualFetches) >= 1
  /\ bestResult.successfulResults # <<>>

C10_MergedCoversRoster ==
  (pc \in {"finish", "returned"} /\ individualRetries # <<>>) =>
    /\ Len(bestResult.allResults) = Len(FindOrigin(authData, origin).companies)
    /\ IdSet(bestResult.successfulResults) \cap IdSet(bestResult.failedResults) = {}

\* returned after a merge that recovered one company and left one failing
C10_Witness ==
  /\ pc = "returned"
  /\ NewSuccesses # <<>>
  /\ StillFailed # <<>>

\* the results Promise.all hands over once every promise is settled
SettledResults == [k \in 1..Len(promises) |-> promises[k].value]

Roster == FindOrigin(authData, origin).companies

WellFormed(batch) ==
  /\ Len(batch.successfulResults) + Len(batch.failedResults) = Len(batch.allResults)
  /\ Cardinality(IdSet(batch.allResults)) = Len(batch.allResults)

\* C11: every batch result, as smartAnalyzeForOrigin produces it, as the
\* processor returns it and as the run retains and returns it, has
\* |successfulResults| + |failedResults| = |allResults| and no companyId
\* twice in allResults.
C11_ListsAddUp ==
  /\ (pc = "batch" /\ AllSettled(promises)) =>
       /\ \A raw \in {BatchResult(origin, companies, SettledResults)} : WellFormed(raw)
       /\ \A cooked \in {PipelineResult(origin, companies, SettledResults)} :
            WellFormed(cooked)
  /\ bestResult # NULL => WellFormed(bestResult)

\* returned after two batch attempts and a merge that recovered one of two
\* failed companies
C11_Witness ==
  /\ pc = "returned"
  /\ Len(attemptLog) >= 2
  /\ NewSuccesses # <<>>
  /\ StillFailed # <<>>
  /\ Len(bestResult.successfulResults) = 1
  /\ Len(bestResult.failedResults) = 1

\* C12: in the result a run returns, whatever retryFailedIndividually is,
\* every company of the roster is in the success list or in the failure
\* list, and a company that is not in the success list has a failure entry
\* with an error message.
C12_NoCompanyDropped ==
  pc = "returned" =>
    \A k \in 1..Len(Roster) :
      \/ Roster[k].id \in IdSet(bestResult.successfulResults)
      \/ \E n \in 1..Len(bestResult.failedResults) :
           /\ bestResult.failedResults[n].companyId = Roster[k].id
           /\ "error" \in DOMAIN bestResult.failedResults[n]
           /\ \E err \in Errs : bestResult.failedResults[n].error = err.message

\* returned after the individual phase recovered nothing: the company is
\* still reported as failed
C12_Witness ==
  /\ pc = "returned"
  /\ options.retryFailedIndividually
  /\ NewSuccesses = <<>>
  /\ StillFailed # <<>>
  /\ bestResult.failedResults # <<>>

SummaryAgrees(batch) ==
  /\ batch.summary.successful = Len(batch.successfulResults)
  /\ batch.summary.failed = Len(batch.failedResults)
  /\ batch.summary.successful + batch.summary.failed = batch.summary.totalCompanies

\* C13: in every batch result of smartAnalyzeForOrigin and in every result a
\* run returns, summary.successful and summary.failed are the lengths of the
\* success and failure lists and add up to summary.totalCompanies; when the
\* individual phase recovers every failed company the result returned has
\* failed = 0 and successful = the size of the roster.
C13_SummaryCounts ==
  /\ (pc = "batch" /\ AllSettled(promises)) =>
       \A raw \in {BatchResult(origin, companies, SettledResults)} : SummaryAgrees(raw)
  /\ pc = "returned" =>
       /\ SummaryAgrees(bestResult)
       /\ (individualRetries # <<>> /\ StillFailed = <<>>) =>
            /\ bestResult.summary.failed = 0
            /\ bestResult.summary.successful = Len(Roster)

\* both companies failed in every batch attempt and were recovered one by one
C13_Witness ==
  /\ pc = "returned"
  /\ Len(individualRetries) = 2
  /\ StillFailed = <<>>
  /\ bestResult.summary.failed = 0
  /\ bestResult.summary.successful = 2

\* the fetches the current call of smartAnalyzeForOrigin issued
BatchFetchesOf(att) ==
  SelectSeq(fetchLog, LAMBDA fetch : fetch.phase = "batch" /\ fetch.attempt = att)

\* the result the handlers of part_003:70-102 must give for a settlement
TaggedAsSettled(value, company, settlement) ==
  /\ value.companyId = company.id
  /\ value.companyName = company.name
  /\ settlement.state = "resolved" =>
       value.status = "success" /\ value.data = settlement.data
  /\ settlement.state = "rejected" =>
       value.status = "failed" /\ value.error = settlement.err.message
  /\ value.status = "success" <=> settlement.state = "resolved"
  /\ value.status = "failed" <=> settlement.state = "rejected"

\* C14: whatever the fetches of a batch do (each resolves or rejects, in any
\* order), one fetch is issued per company of the roster, a settled fetch
\* yields a result tagged success iff it resolved and failed with the error
\* message iff it rejected, a fetch still pending can resolve or reject
\* whatever the others did, and once all are settled smartAnalyzeForOrigin
\* returns (it never throws) a batch whose allResults has exactly one result
\* per company of the roster, in roster order.
C14_RejectionsAreIsolated ==
  /\ pc = "batch" =>
       /\ companies = Roster
       /\ Len(promises) = Len(companies)
       /\ Len(settlements) = Len(companies)
       /\ Len(BatchFetchesOf(attempt)) = Len(companies)
       /\ \A k \in 1..Len(companies) :
            /\ BatchFetchesOf(attempt)[k].companyId = companies[k].id
            /\ promises[k] = Pending <=> settlements[k] = Pending
            /\ promises[k] = Pending =>
                 /\ ENABLED FetchResolves(k, DocClean)
                 /\ \A err \in Errs : ENABLED FetchRejects(k, err)
            /\ promises[k] # Pending =>
                 TaggedAsSettled(promises[k].value, companies[k], settlements[k])
       /\ AllSettled(promises) =>
            \A raw \in {BatchResult(origin, companies, SettledResults)} :
              /\ Len(raw.allResults) = Len(Roster)
              /\ \A k \in 1..Len(Roster) :
                   TaggedAsSettled(raw.allResults[k], Roster[k], settlements[k])
  /\ \A att \in 1..MaxRetriesBound :
       BatchFetchesOf(att) # <<>> =>
         \/ att = attempt /\ pc = "batch"
         \/ att \in 1..Len(attemptLog) /\ attemptLog[att] # Threw

\* the first company's fetch rejected, the second one's resolved all the same
C14_Witness ==
  /\ pc = "batch"
  /\ Len(settlements) = 2
  /\ settlements[1].state = "rejected"
  /\ settlements[2].state = "resolved"
  /\ promises[1].value.status = "failed"
  /\ promises[2].value.status = "success"

\* C15: smartAnalyzeForOrigin goes past Promise.all only when every fetch of
\* the batch is settled, and a run has returned (or thrown) only when every
\* fetch it issued, in batches and one by one, is settled.
C15_NothingOutstanding ==
  /\ (pc = "batch" /\ AllSettled(promises)) => outstanding = {}
  /\ pc = "batch" =>
       Cardinality(outstanding) = Cardinality({k \in 1..Len(promises) : promises[k] = Pending})
  /\ pc \notin {"batch", "retrying"} => outstanding = {}

\* returned after batch fetches and individual fetches, none left in flight
C15_Witness ==
  /\ pc = "returned"
  /\ Len(fetchLog) >= 3
  /\ IndividualFetches # <<>>
  /\ outstanding = {}

Rank(S, n) == Cardinality({m \in S : m <= n})

\* C16: removeDuplicateCompanies returns, in input order, exactly the
\* companies that are the first of their key (companyId, else companyName)
\* in the input array, each one as it was in the input: nothing of a dropped
\* company is merged into the survivor.
C16_FirstCompanyWins ==
  fn = "removeDuplicateCompanies" =>
    \A first \in {{n \in 1..Len(arg) :
                     \A m \in 1..(n - 1) : CompanyKey(arg[m]) # CompanyKey(arg[n])}} :
      /\ Len(ret) = Cardinality(first)
      /\ \A n \in first : ret[Rank(first, n)] = arg[n]
      /\ \A n \in 1..Len(arg) :
           \E j \in 1..Len(ret) : CompanyKey(ret[j]) = CompanyKey(arg[n])

\* two companies with one key and different driver data: the first survives
\* with its own data
C16_Witness ==
  /\ fn = "removeDuplicateCompanies"
  /\ Len(arg) = 2
  /\ CompanyKey(arg[1]) = CompanyKey(arg[2])
  /\ "companyId" \notin DOMAIN arg[2]
  /\ "data" \in DOMAIN arg[1]
  /\ arg[1].data # arg[2].data
  /\ arg[1].data # <<>>
  /\ ret = <<arg[1]>>

LogsOf(driver) == IF "logs" \in DOMAIN driver THEN driver.logs ELSE <<>>

\* the logs of the records of data with the given key, in encounter order
RECURSIVE LogsOfKey(_, _)
LogsOfKey(data, key) ==
  IF data = <<>> THEN <<>>
  ELSE (IF DriverKey(Head(data)) = key THEN LogsOf(Head(data)) ELSE <<>>)
         \o LogsOfKey(Tail(data), key)

WithoutLogs(driver) == [k \in DOMAIN driver \ {"logs"} |-> driver[k]]

\* out is data with one record per key, the first one, holding all the logs
MergedByKey(data, out) ==
  \A first \in {{n \in 1..Len(data) :
                   \A m \in 1..(n - 1) : DriverKey(data[m]) # DriverKey(data[n])}} :
    /\ Len(out) = Cardinality(first)
    /\ \A n \in first :
         /\ WithoutLogs(out[Rank(first, n)]) = WithoutLogs(data[n])
         /\ LogsOf(out[Rank(first, n)]) = LogsOfKey(data, DriverKey(data[n]))

EveryoneHasLogs(data) == \A n \in 1..Len(data) : "logs" \in DOMAIN data[n]

\* C17: removeDuplicateDrivers leaves in every company one record per driver
\* key (driverName, else driverId), the first one, whose logs are the logs of
\* all the records of that key in encounter order; no log is lost.
C17_AsStated ==
  fn = "removeDuplicateDrivers" =>
    \A n \in 1..Len(arg) :
      "data" \in DOMAIN arg[n] => MergedByKey(arg[n].data, ret[n].data)

\* what holds of the code: the same, for companies whose driver records all
\* carry a logs array
C17_MergesWhenLogsPresent ==
  fn = "removeDuplicateDrivers" =>
    \A n \in 1..Len(arg) :
      ("data" \in DOMAIN arg[n] /\ EveryoneHasLogs(arg[n].data)) =>
        MergedByKey(arg[n].data, ret[n].data)

\* [a, b] and [c] merged to [a, b, c]
C17_Merged ==
  /\ fn = "removeDuplicateDrivers"
  /\ arg # <<>>
  /\ "data" \in DOMAIN arg[1]
  /\ arg[1].data = <<Ann, AnnAgain>>
  /\ Len(ret[1].data) = 1
  /\ ret[1].data[1].driverId = "d1"
  /\ ret[1].data[1].logs = Ann.logs \o AnnAgain.logs

\* a first record without logs, a later record of the same key with a log:
\* the retained record has no logs
C17_LogLost ==
  /\ fn = "removeDuplicateDrivers"
  /\ arg # <<>>
  /\ "data" \in DOMAIN arg[1]
  /\ arg[1].data = <<AnnBare, AnnAgain>>
  /\ ret[1].data = <<AnnBare>>

Matches(n, log) == match(ERROR_FILTERS[n], LogMessage(log))

Unmatched(log) == \A n \in 1..Len(ERROR_FILTERS) : ~Matches(n, log)

\* rule n is the first rule, in declared order, that matches the log
Charged(n, log) == Matches(n, log) /\ \A m \in 1..(n - 1) : ~Matches(m, log)

\* <<company, driver, log>> positions of the logs the call looks at
LogsSeen(results) ==
  UNION {UNION {{<<n, d>>} \X DOMAIN LogsOf(results[n].data[d]) :
                  d \in DOMAIN results[n].data} :
           n \in {m \in DOMAIN results : "data" \in DOMAIN results[m]}}

LogAt(results, t) == results[t[1][1]].data[t[1][2]].logs[t[2]]

\* C18: filterErrorMessages removes a log if and only if some rule of
\* ERROR_FILTERS matches its errorMessage; the logs no rule matches stay, in
\* their order, and nothing else of the companies and drivers changes; each
\* removed log adds one to the counter of the first rule that matches it,
\* to no other counter, and one to totalLogsRemoved.
C18_FirstRuleCounts ==
  fn = "filterErrorMessages" =>
    /\ Len(ret.results) = Len(arg)
    /\ \A n \in 1..Len(arg) :
         IF "data" \notin DOMAIN arg[n] THEN ret.results[n] = arg[n]
         ELSE /\ Len(ret.results[n].data) = Len(arg[n].data)
              /\ \A d \in 1..Len(arg[n].data) :
                   /\ WithoutLogs(ret.results[n].data[d]) = WithoutLogs(arg[n].data[d])
                   /\ "logs" \in DOMAIN ret.results[n].data[d]
                        <=> "logs" \in DOMAIN arg[n].data[d]
                   /\ LogsOf(ret.results[n].data[d])
                        = SelectSeq(LogsOf(arg[n].data[d]), Unmatched)
    /\ \A seen \in {LogsSeen(arg)} :
         /\ ret.stats.totalLogsProcessed = Cardinality(seen)
         /\ ret.stats.totalLogsRemoved
              = Cardinality({t \in seen : ~Unmatched(LogAt(arg, t))})
         /\ \A n \in 1..Len(ERROR_FILTERS) :
              ret.stats.warningsRemoved[ERROR_FILTERS[n].key]
                = Cardinality({t \in seen : Charged(n, LogAt(arg, t))})

\* a padded exact message and a message with the longer speed prefix are
\* removed and counted once each; the real event stays
C18_Witness ==
  /\ fn = "filterErrorMessages"
  /\ arg # <<>>
  /\ "data" \in DOMAIN arg[1]
  /\ arg[1].data = <<Ann, Cy>>
  /\ ret.results[1].data[1].logs = <<Log(<<"REAL EVENT">>)>>
  /\ ret.results[1].data[2].logs = <<>>
  /\ ret.stats.totalLogsProcessed = 3
  /\ ret.stats.totalLogsRemoved = 2
  /\ ret.stats.warningsRemoved["odometerError"] = 1
  /\ ret.stats.warningsRemoved["speedMuchHigherThanLimit"] = 1
  /\ ret.stats.warningsRemoved["speedHigherThanLimit"] = 0

LogCount(results) == Cardinality(LogsSeen(results))

\* C19: after processSmartAnalyzeResults, totalLogsProcessed =
\* totalLogsRemoved + remainingLogs, and remainingLogs is the number of logs
\* present in the output, the logs of allResults counted once each.
C19_AsStated ==
  fn = "processSmartAnalyzeResults" =>
    \A stats \in {ret.summary.processingStats} :
      /\ stats.totalLogsProcessed = stats.totalLogsRemoved + stats.remainingLogs
      /\ stats.remainingLogs = LogCount(ret.allResults)

\* what holds of the code: the three counters are consistent, and
\* remainingLogs is the number of logs left in the three arrays taken
\* together, so a log of a successful company is counted twice
C19_CountsEveryArray ==
  fn = "processSmartAnalyzeResults" =>
    \A stats \in {ret.summary.processingStats} :
      /\ stats.totalLogsProcessed = stats.totalLogsRemoved + stats.remainingLogs
      /\ stats.remainingLogs
           = LogCount(ret.successfulResults) + LogCount(ret.allResults)
               + LogCount(ret.failedResults)

\* one company, one driver, one log that no rule matches, in memory:
\* remainingLogs is 2
C19_CountedTwice ==
  /\ fn = "processSmartAnalyzeResults"
  /\ Len(arg.allResults) = 1
  /\ arg.allResults = arg.successfulResults
  /\ arg.allResults[1].data = <<AnnAgain>>
  /\ LogCount(ret.allResults) = 1
  /\ ret.summary.processingStats.totalLogsProcessed = 2
  /\ ret.summary.processingStats.totalLogsRemoved = 0
  /\ ret.summary.processingStats.remainingLogs = 2

Retained(driver) == SelectSeq(LogsOf(driver), Unmatched)

HasRetained(driver) == Retained(driver) # <<>>

\* out is drivers, less those with no retained log, each left with its
\* retained logs
Survivors(drivers, out) ==
  \A kept \in {SelectSeq(drivers, HasRetained)} :
    /\ Len(out) = Len(kept)
    /\ \A j \in 1..Len(kept) :
         /\ WithoutLogs(out[j]) = WithoutLogs(kept[j])
         /\ "logs" \in DOMAIN out[j]
         /\ out[j].logs = Retained(kept[j])
         /\ out[j].logs # <<>>

\* C20: after processSmartAnalyzeResults, in each of the three arrays, the
\* drivers of a company are exactly the drivers left by the deduplication
\* that have at least one log no rule matches, in order, each with those
\* logs; removeEmptyDrivers alone keeps exactly the drivers with a non-empty
\* logs array.  No surviving driver has an empty log list.
C20_SurvivesIffLogRetained ==
  /\ fn = "processSmartAnalyzeResults" =>
       \A key \in ResultKeys : \A n \in 1..Len(ret[key]) :
         "data" \in DOMAIN ret[key][n] =>
           \E m \in 1..Len(arg[key]) :
             /\ arg[key][m].ref = ret[key][n].ref
             /\ Survivors(UniqueDrivers(arg[key][m].data, <<>>), ret[key][n].data)
  /\ fn = "removeEmptyDrivers" =>
       \A n \in 1..Len(arg) :
         IF "data" \notin DOMAIN arg[n] THEN ret[n] = arg[n]
         ELSE /\ \A d \in 1..Len(ret[n].data) : LogsOf(ret[n].data[d]) # <<>>
              /\ \A kept \in {{d \in 1..Len(arg[n].data) : LogsOf(arg[n].data[d]) # <<>>}} :
                   /\ Len(ret[n].data) = Cardinality(kept)
                   /\ \A d \in kept : ret[n].data[Rank(kept, d)] = arg[n].data[d]

\* a driver whose only log is noise is gone after the reduction, the driver
\* next to it stays with its one real log
C20_Witness ==
  /\ fn = "processSmartAnalyzeResults"
  /\ Len(arg.successfulResults) = 1
  /\ arg.successfulResults[1].data = <<Cy, Ann>>
  /\ Len(ret.successfulResults[1].data) = 1
  /\ ret.successfulResults[1].data[1].driverName = "Ann"
  /\ ret.successfulResults[1].data[1].logs = <<Log(<<"REAL EVENT">>)>>
  /\ ret.allResults[1].data = ret.successfulResults[1].data

NoSharedCompanyKey(results) ==
  \A n, m \in 1..Len(results) :
    n # m => CompanyKey(results[n]) # CompanyKey(results[m])

NoSharedDriverKey(company) ==
  "data" \in DOMAIN company =>
    \A n, m \in 1..Len(company.data) :
      n # m => DriverKey(company.data[n]) # DriverKey(company.data[m])

\* C21: after processSmartAnalyzeResults, in each of successfulResults,
\* allResults and failedResults no two companies have the same key
\* (companyId, else companyName), and in each company no two drivers have the
\* same key (driverName, else driverId).
C21_KeysUnique ==
  fn = "processSmartAnalyzeResults" =>
    \A key \in ResultKeys :
      /\ NoSharedCompanyKey(ret[key])
      /\ \A n \in 1..Len(ret[key]) : NoSharedDriverKey(ret[key][n])

\* a batch with the same company key twice and, in the first company, the
\* same driver key twice comes out with one company holding one driver
C21_Witness ==
  /\ fn = "processSmartAnalyzeResults"
  /\ Len(arg.successfulResults) = 2
  /\ ~NoSharedCompanyKey(arg.successfulResults)
  /\ ~NoSharedDriverKey(arg.successfulResults[1])
  /\ Len(ret.successfulResults) = 1
  /\ Len(ret.allResults) = 1
  /\ Len(ret.allResults[1].data) = 1

\* C22: removeDuplicateCompanies followed by removeDuplicateDrivers, applied
\* to what the two have already produced, changes nothing: the same
\* companies, the same drivers, the same logs.
C22_DedupIdempotent ==
  fn = "deduplicateAgain" => ret = arg

\* the second application finds a driver that holds the merged logs of two
\* records and leaves it alone
C22_Witness ==
  /\ fn = "deduplicateAgain"
  /\ arg # <<>>
  /\ "data" \in DOMAIN arg[1]
  /\ arg[1].data # <<>>
  /\ LogsOf(arg[1].data[1]) = Ann.logs \o AnnAgain.logs
  /\ ret = arg

\* a.counter = b.counter + c.counter for every counter of processingStats
StatsAddUp(a, b, c) ==
  /\ a.totalLogsProcessed = b.totalLogsProcessed + c.totalLogsProcessed
  /\ a.totalLogsRemoved = b.totalLogsRemoved + c.totalLogsRemoved
  /\ a.companiesProcessed = b.companiesProcessed + c.companiesProcessed
  /\ a.driversProcessed = b.driversProcessed + c.driversProcessed
  /\ \A k \in FilterKeys :
       a.warningsRemoved[k] = b.warningsRemoved[k] + c.warningsRemoved[k]

\* the statistics the reduction of the merged batch computes
RereductionStats ==
  processSmartAnalyzeResults(
    MergedLists(bestResult, NewSuccesses, StillFailed)).summary.processingStats

Merging == pc = "for" /\ pc' = "finish" /\ NewSuccesses # <<>>

\* C23: after the reduction that follows the individual retries, every
\* counter of summary.processingStats is its value from the earlier reduction
\* of the best result plus what the new reduction counted.
C23_AsStated ==
  [][Merging =>
       \A pass \in {RereductionStats} :
         StatsAddUp(bestResult'.summary.processingStats,
                    bestResult.summary.processingStats, pass)]_vars

\* what holds of the code: the new reduction starts from zero and its
\* statistics replace the earlier ones
C23_StatsReplaced ==
  [][Merging =>
       \A pass \in {RereductionStats} :
         /\ StatsAddUp(bestResult'.summary.processingStats, ZeroStats, pass)
         /\ bestResult'.summary.processingStats.remainingLogs
              = pass.totalLogsProcessed - pass.totalLogsRemoved]_vars

\* returned after a merge: a company of the batch attempt whose document lost
\* three logs to the filter is in the result, and totalLogsRemoved is 0
C23_EarlierCountsGone ==
  /\ pc = "returned"
  /\ NewSuccesses # <<>>
  /\ \E n \in 1..Len(bestResult.successfulResults) :
       /\ bestResult.successfulResults[n].ref[1] # 0
       /\ bestResult.successfulResults[n].data # <<>>
       /\ bestResult.successfulResults[n].data[1].driverName = "Bob"
  /\ bestResult.summary.processingStats.totalLogsRemoved = 0

\* records the processor has to tolerate: a company without a driver list or
\* without any id, a driver without a logs list or without any id
WellFormedCompany(company) ==
  "data" \in DOMAIN company /\ CompanyKey(company) # UNDEFINED

WellFormedDriver(driver) ==
  "logs" \in DOMAIN driver /\ DriverKey(driver) # UNDEFINED

\* the well-formed companies of an array, each with its well-formed drivers
CleanResults(results) ==
  [n \in 1..Len(SelectSeq(results, WellFormedCompany)) |->
     Assign(SelectSeq(results, WellFormedCompany)[n], "data",
            SelectSeq(SelectSeq(results, WellFormedCompany)[n].data, WellFormedDriver))]

CleanBatch(batch) ==
  [k \in DOMAIN batch |-> IF k \in ResultKeys THEN CleanResults(batch[k]) ELSE batch[k]]

\* the reduction treats the well-formed records as if the others were absent
SkipsMalformed ==
  \A clean \in {processSmartAnalyzeResults(CleanBatch(arg))} :
    \A key \in ResultKeys : CleanResults(ret[key]) = clean[key]

\* no record that is not well-formed has the key of a well-formed one
NoKeyClash(results) ==
  /\ \A n, m \in 1..Len(results) :
       (WellFormedCompany(results[n]) /\ ~WellFormedCompany(results[m]))
         => CompanyKey(results[n]) # CompanyKey(results[m])
  /\ \A n \in 1..Len(results) :
       "data" \in DOMAIN results[n] =>
         \A d, e \in 1..Len(results[n].data) :
           (WellFormedDriver(results[n].data[d]) /\ ~WellFormedDriver(results[n].data[e]))
             => DriverKey(results[n].data[d]) # DriverKey(results[n].data[e])

\* C24: processSmartAnalyzeResults returns (it does not throw) on batches
\* with companies without a driver list or without ids and drivers without
\* logs or without ids, and the well-formed companies and drivers of the
\* batch come out deduplicated, filtered and pruned as if the malformed
\* records were not there.
C24_AsStated ==
  fn = "processSmartAnalyzeResults" =>
    /\ ResultKeys \subseteq DOMAIN ret
    /\ SkipsMalformed

\* what holds of the code: the same, for batches in which no malformed record
\* has the key of a well-formed one
C24_SkipsUnlessKeyShared ==
  fn = "processSmartAnalyzeResults" =>
    /\ ResultKeys \subseteq DOMAIN ret
    /\ (\A key \in ResultKeys : NoKeyClash(arg[key])) => SkipsMalformed

\* a driver without logs comes first, a well-formed driver of the same name
\* second: the company is left without drivers
C24_WellFormedDriverLost ==
  /\ fn = "processSmartAnalyzeResults"
  /\ Len(arg.allResults) = 1
  /\ "data" \in DOMAIN arg.allResults[1]
  /\ arg.allResults[1].data = <<AnnBare, AnnAgain>>
  /\ WellFormedDriver(AnnAgain)
  /\ ret.allResults[1].data = <<>>

\* the result a run returned is about its own origin and roster
OwnResult(run) ==
  run.pc = "returned" =>
    /\ run.bestResult.summary.origin = run.origin
    /\ IdSet(run.bestResult.allResults)
         = {FindOrigin(authData, run.origin).companies[k].id :
              k \in 1..Len(FindOrigin(authData, run.origin).companies)}

FailedWithRetriesLeft ==
  {k \in ResultsSeen : attemptLog[k].failed > 0 /\ k < options.maxRetries}

\* C26: every batch attempt that returns with failed > 0 while attempt <
\* maxRetries is followed by the backoff delay before the next attempt
\* starts, whatever the options are: the delays waited are as many as such
\* attempts, and the next attempt starts only after the delay.
C26_AsStated ==
  /\ delaysWaited = Cardinality(FailedWithRetriesLeft)
  /\ (pc = "pipeline" /\ attempt - 1 \in FailedWithRetriesLeft) => delaysWaited >= 1

\* what holds of the code: the delay is waited in verbose runs only
C26_DelayOnlyIfVerbose ==
  delaysWaited = IF options.verbose THEN Cardinality(FailedWithRetriesLeft) ELSE 0

\* verbose = false: the second attempt has started right after a first
\* attempt that returned with failures, and no delay was waited
C26_NoBackoff ==
  /\ ~options.verbose
  /\ options.maxRetries >= 2
  /\ pc = "pipeline"
  /\ attempt = 2
  /\ attemptLog[1].outcome = "result"
  /\ attemptLog[1].failed > 0
  /\ delaysWaited = 0

\* C27: during the individual retries at most one fetch is outstanding, the
\* companies are fetched in the order of bestResult.failedResults, and the
\* fetch of a company is issued only when the fetches of all the companies
\* before it in that list have settled.
C27_OneAtATime ==
  InIndividualPhase =>
    /\ Ids(failedCompanies) = Ids(bestResult.failedResults)
    /\ Cardinality(outstanding) <= 1
    /\ outstanding # {} <=> pc = "retrying"
    /\ \A issued \in {SelectSeq(IndividualFetches,
                                LAMBDA fetch : fetch.attempt = attempt)} :
         /\ Len(issued) <= Len(failedCompanies)
         /\ Ids(issued) = SubSeq(Ids(failedCompanies), 1, Len(issued))
         /\ Len(individualRetries) = Len(issued) - Cardinality(outstanding)
         /\ Ids(individualRetries) = SubSeq(Ids(failedCompanies), 1, Len(individualRetries))

\* the only outstanding fetch is the one of the second failed company; the
\* first one's has settled
C27_Witness ==
  /\ pc = "retrying"
  /\ Len(failedCompanies) = 2
  /\ i = 1
  /\ Len(individualRetries) = 1
  /\ outstanding = {Len(fetchLog)}
  /\ fetchLog[Len(fetchLog)].companyId = failedCompanies[2].companyId
  /\ failedCompanies[1].companyId # failedCompanies[2].companyId

\* the drivers of a company are deduplicated, filtered and pruned
Reduced(company) ==
  "data" \in DOMAIN company =>
    /\ NoSharedDriverKey(company)
    /\ \A d \in 1..Len(company.data) :
         /\ "logs" \in DOMAIN company.data[d]
         /\ company.data[d].logs # <<>>
         /\ \A j \in 1..Len(company.data[d].logs) : Unmatched(company.data[d].logs[j])

\* C28: in the result a run returns, every company of successfulResults and
\* of allResults, the ones recovered by an individual retry included, has
\* only logs that no rule matches, no driver without logs and no two drivers
\* with the same key.
C28_RecoveredAreReduced ==
  pc = "returned" =>
    /\ \A n \in 1..Len(bestResult.successfulResults) :
         Reduced(bestResult.successfulResults[n])
    /\ \A n \in 1..Len(bestResult.allResults) : Reduced(bestResult.allResults[n])

\* a company recovered by an individual retry that answered with the noisy
\* document is returned with one driver holding the two logs no rule matches
C28_Witness ==
  /\ pc = "returned"
  /\ \E n \in 1..Len(bestResult.successfulResults) :
       /\ bestResult.successfulResults[n].ref[1] = 0
       /\ Len(bestResult.successfulResults[n].data) = 1
       /\ bestResult.successfulResults[n].data[1].driverName = "Bob"
       /\ bestResult.successfulResults[n].data[1].logs
            = <<Log(<<"REAL EVENT">>), Log(<<"FORM ERROR">>)>>

\* positions in the roster of the companies whose fetch resolved / rejected
ResolvedAt == {k \in 1..Len(settlements) : settlements[k].state = "resolved"}

RejectedAt == {k \in 1..Len(settlements) : settlements[k].state = "rejected"}

\* list holds, in roster order, the results of the companies at the positions
InRosterOrder(list, positions) ==
  /\ Len(list) = Cardinality(positions)
  /\ \A k \in positions : list[Rank(positions, k)].companyId = Roster[k].id

\* C29 as stated: the results in the arrays of a batch are in the order in
\* which the fetches settled.
C29_AsStated ==
  (pc = "batch" /\ AllSettled(promises)) =>
    \A raw \in {BatchResult(origin, companies, SettledResults)} :
      Ids(raw.allResults) = [n \in 1..Len(settleOrder) |-> Roster[settleOrder[n]].id]

\* C29: the results in allResults, successfulResults and failedResults of a
\* batch are in the order of the roster, whatever the order in which the
\* fetches settled.
C29_RosterOrder ==
  (pc = "batch" /\ AllSettled(promises)) =>
    \A raw \in {BatchResult(origin, companies, SettledResults)} :
      /\ InRosterOrder(raw.allResults, 1..Len(Roster))
      /\ InRosterOrder(raw.successfulResults, ResolvedAt)
      /\ InRosterOrder(raw.failedResults, RejectedAt)

\* the second company's fetch settled first; the first company is first in
\* the batch all the same
C29_Witness ==
  /\ pc = "batch"
  /\ AllSettled(promises)
  /\ settleOrder = <<2, 1>>
  /\ ResolvedAt = {1, 2}
  /\ promises[1].value.companyId = Roster[1].id
  /\ promises[2].value.companyId = Roster[2].id

\* the ids of the companies a returned batch reports as fetched
ReportedSuccessful == IdSet(bestResult.successfulResults)

\* the ids of the companies a returned batch reports as failed
ReportedFailed == IdSet(bestResult.failedResults)

\* C30 as the specification states it: when the run returns, every company
\* a fetch of which resolved after an earlier fetch of the same company had
\* rejected is among the successful results of the returned batch, whichever
\* batch attempt or individual retry the resolved fetch belonged to.
C30_AsStated ==
  pc = "returned" => succeededLater \subseteq ReportedSuccessful

\* C30, the part the merge of the individual retries provides: a company
\* recovered by an individual retry is reported as successful and no longer
\* as failed.
C30_RetrySuccessOverrides ==
  pc = "returned" =>
    /\ IdSet(NewSuccesses) \subseteq ReportedSuccessful
    /\ IdSet(NewSuccesses) \cap ReportedFailed = {}

\* C30: the run returns, after two batch attempts and no individual retry
\* fetch that resolved, a batch that reports as failed a company whose fetch
\* resolved in the second attempt after it had rejected in the first.
C30_LaterSuccessDiscarded ==
  /\ pc = "returned"
  /\ attempt = 2
  /\ NewSuccesses = <<>>
  /\ \E id \in succeededLater : id \in ReportedFailed /\ id \notin ReportedSuccessful

\* the (company id, error) pairs of a list of failed entries
ErrorsOf(list) == {<<list[n].companyId, list[n].error>> : n \in 1..Len(list)}

\* C31 as the specification states it: when the run returns, every company
\* whose individual retry rejected is in the failure list of the returned
\* batch with the error of that individual retry, whether or not another
\* company was recovered by the individual retries.
C31_AsStated ==
  pc = "returned" => ErrorsOf(StillFailed) \subseteq ErrorsOf(bestResult.failedResults)

\* C31, the part the merge provides: when at least one company was recovered,
\* the failure list of the returned batch holds exactly the companies whose
\* individual retry rejected, each with the error of that retry.
C31_LastErrorWhenRecovered ==
  pc = "returned" /\ NewSuccesses # <<>> =>
    ErrorsOf(bestResult.failedResults) = ErrorsOf(StillFailed)

\* C31: the run returns after individual retries that recovered nothing, and
\* a company is reported with the error of its batch fetch although its
\* individual retry, the most recent fetch, rejected with another error.
C31_StaleError ==
  /\ pc = "returned"
  /\ NewSuccesses = <<>>
  /\ \E n \in 1..Len(StillFailed) :
       /\ StillFailed[n].companyId \in ReportedFailed
       /\ <<StillFailed[n].companyId, StillFailed[n].error>>
            \notin ErrorsOf(bestResult.failedResults)

\* the company ids batch attempt att asked the remote API for, in order
IdsFetchedIn(att) ==
  [k \in 1..Len(BatchFetchesOf(att)) |-> BatchFetchesOf(att)[k].companyId]

\* C32 as the specification states it: the roster is read once per run, so
\* any two batch attempts of a run fetch the same list of companies, even
\* when the roster file is replaced between the attempts.
C32_AsStated ==
  \A a, b \in ResultsSeen : IdsFetchedIn(a) = IdsFetchedIn(b)

\* C32, what the code does: the roster is read at the start of every batch
\* attempt, and the attempt fetches the companies of the file as it is then.
C32_ReadAtEveryAttempt ==
  [][pc = "pipeline" /\ pc' = "batch"
       => /\ FindOrigin(authData, origin) # NULL
          /\ companies' = FindOrigin(authData, origin).companies
          /\ IdsFetchedIn(attempt)' = [k \in 1..Len(companies') |-> companies'[k].id]]_vars

\* C32: the roster file was replaced between two batch attempts of one run
\* and the run returns after its second attempt fetched two companies where
\* the first had fetched one.
C32_RosterRefreshed ==
  /\ pc = "returned"
  /\ attempt = 2
  /\ ResultsSeen = {1, 2}
  /\ Len(IdsFetchedIn(1)) = 1
  /\ Len(IdsFetchedIn(2)) = 2

\* the promises of the batch in progress that have settled
SettledAt == {k \in 1..Len(promises) : promises[k] # Pending}

\* what smartAnalyzeForOrigin returns for a roster and the way the fetch of
\* each of its companies settled; the verbose option is no argument of it
ExpectedBatch(name, roster, settled) ==
  LET results == [k \in 1..Len(roster) |->
                    IF settled[k].state = "resolved"
                      THEN [status |-> "success", companyName |-> roster[k].name,
                            companyId |-> roster[k].id, data |-> settled[k].data]
                      ELSE [status |-> "failed", companyName |-> roster[k].name,
                            companyId |-> roster[k].id, error |-> settled[k].err.message,
                            errorDetails |->
                              IF "response" \in DOMAIN settled[k].err
                                THEN settled[k].err.response.data ELSE JsNull]]
  IN [successfulResults |-> SelectSeq(results, IsSuccess),
      failedResults |-> SelectSeq(results, IsFailed),
      allResults |-> results,
      successful |-> Len(SelectSeq(results, IsSuccess)),
      failed |-> Len(SelectSeq(results, IsFailed)),
      totalCompanies |-> Len(roster)]

\* a batch without the position tags the model adds to its entries
Untagged(list) == [n \in 1..Len(list) |-> [k \in DOMAIN list[n] \ {"ref"} |-> list[n][k]]]

\* C33: progress reporting in smartAnalyzeForOrigin is advisory. Whatever the
\* verbose option, a batch attempt fetches the companies of the roster in
\* order and, once every fetch has settled, returns the lists and counts
\* that the roster and the outcome of each fetch determine; the progress
\* counters count the settled, resolved and rejected fetches, the progress
\* lines are printed only when verbose, and when every fetch has settled
\* completedCount = successCount + failedCount = the size of the roster.
C33_ProgressAdvisory ==
  pc = "batch" =>
    /\ IdsFetchedIn(attempt) = [k \in 1..Len(Roster) |-> Roster[k].id]
    /\ progress.completedCount = Cardinality(SettledAt)
    /\ progress.successCount = Cardinality(ResolvedAt)
    /\ progress.failedCount = Cardinality(RejectedAt)
    /\ progress.completedCount = progress.successCount + progress.failedCount
    /\ progress.logged = IF options.verbose
                           THEN [n \in 1..progress.completedCount |-> n] ELSE <<>>
    /\ AllSettled(promises) =>
         /\ progress.completedCount = Len(Roster)
         /\ \A raw \in {BatchResult(origin, companies, SettledResults)} :
              \A expected \in {ExpectedBatch(origin, Roster, settlements)} :
                /\ Untagged(raw.successfulResults) = expected.successfulResults
                /\ Untagged(raw.failedResults) = expected.failedResults
                /\ Untagged(raw.allResults) = expected.allResults
                /\ raw.summary.successful = expected.successful
                /\ raw.summary.failed = expected.failed
                /\ raw.summary.totalCompanies = expected.totalCompanies

\* a batch of two whose fetches have settled, one resolved and one rejected,
\* with progress emission off: the counters are 2 = 1 + 1, nothing is printed
C33_Witness ==
  /\ pc = "batch"
  /\ ~options.verbose
  /\ AllSettled(promises)
  /\ Len(promises) = 2
  /\ progress.completedCount = 2
  /\ progress.successCount = 1
  /\ progress.failedCount = 1
  /\ progress.logged = <<>>

\* companyId ?? companyName: companyId unless it is null or undefined
NullishKey(company) ==
  IF Get(company, "companyId") \in {UNDEFINED, JsNull}
    THEN Get(company, "companyName") ELSE company.companyId

\* companyId || companyName: companyId unless it is null, undefined or ""
TruthyKey(company) ==
  IF Get(company, "companyId") \in {UNDEFINED, JsNull, ""}
    THEN Get(company, "companyName") ELSE company.companyId

\* C34 as the specification states it: removeDuplicateCompanies keeps
\* exactly the companies that are the first of their key, the key being
\* companyId whenever it is present (the empty string included) and
\* companyName only otherwise.
C34_AsStated ==
  fn = "removeDuplicateCompanies" =>
    \A first \in {{n \in 1..Len(arg) :
                     \A m \in 1..(n - 1) : NullishKey(arg[m]) # NullishKey(arg[n])}} :
      /\ Len(ret) = Cardinality(first)
      /\ \A n \in first : ret[Rank(first, n)] = arg[n]

\* C34, what the code does: the key is companyId unless it is null,
\* undefined or the empty string, and companyName then.
C34_KeyByTruthiness ==
  fn = "removeDuplicateCompanies" =>
    \A first \in {{n \in 1..Len(arg) :
                     \A m \in 1..(n - 1) : TruthyKey(arg[m]) # TruthyKey(arg[n])}} :
      /\ Len(ret) = Cardinality(first)
      /\ \A n \in first : ret[Rank(first, n)] = arg[n]

\* C34: a company whose companyId is the empty string was dropped as the
\* duplicate of a company with another companyId, because its name is that
\* company's id.
C34_EmptyIdCollides ==
  /\ fn = "removeDuplicateCompanies"
  /\ Len(arg) = 2
  /\ arg[1].companyId = "c1"
  /\ Get(arg[2], "companyId") = ""
  /\ ret = <<arg[1]>>

\* the logs of the drivers of the companies of a result array that a rule of
\* ERROR_FILTERS matches
NoiseIn(results) ==
  {<<n, d, j>> \in (1..Len(results)) \X (1..MaxDrivers + 1) \X (1..4) :
     /\ "data" \in DOMAIN results[n]
     /\ d <= Len(results[n].data)
     /\ "logs" \in DOMAIN results[n].data[d]
     /\ j <= Len(results[n].data[d].logs)
     /\ FirstMatch(results[n].data[d].logs[j]) # 0}

\* C35 as the specification states it: for one input batch the standalone
\* script and the in-memory processor leave the same successfulResults,
\* failedResults and allResults.
C35_AsStated ==
  fn = "script" =>
    \A inMemory \in {processSmartAnalyzeResults(arg)} :
      \A key \in ResultKeys : ret[key] = inMemory[key]

\* C35, what the script does: it leaves the same allResults and failedResults
\* as the in-memory processor; its successfulResults are deduplicated and
\* pruned of the drivers without logs, but their logs are not filtered.
C35_ScriptFiltersAllResultsOnly ==
  fn = "script" =>
    \A inMemory \in {processSmartAnalyzeResults(arg)} :
      /\ ret.allResults = inMemory.allResults
      /\ ret.failedResults = inMemory.failedResults
      /\ ret.successfulResults =
           removeEmptyDrivers(removeDuplicateDrivers(
             removeDuplicateCompanies(arg.successfulResults)))

\* C35: the script left in successfulResults a log that a rule matches,
\* where the in-memory processor leaves none.
C35_NoiseLeftByScript ==
  /\ fn = "script"
  /\ NoiseIn(ret.successfulResults) # {}
  /\ NoiseIn(processSmartAnalyzeResults(arg).successfulResults) = {}
  /\ NoiseIn(ret.allResults) = {}

\* the individual retry phase was entered: its loop fetched a company
PhaseEntered == failedCompanies # <<>> /\ IndividualFetches # <<>>

\* C36 as the specification states it: in the returned summary
\* retryMetadata.individualRetryUsed is true if and only if the individual
\* retry phase was entered during the run.
C36_AsStated ==
  pc = "returned" =>
    (bestResult.summary.retryMetadata.individualRetryUsed <=> PhaseEntered)

\* C36, what the code does: individualRetryUsed is the value of the option
\* retryFailedIndividually, whether or not the phase was entered.
C36_ReportsTheOption ==
  pc = "returned" =>
    bestResult.summary.retryMetadata.individualRetryUsed = options.retryFailedIndividually

\* C36: a run whose first batch attempt left no failure returns with
\* individualRetryUsed true although no company was retried individually.
C36_UsedButNeverEntered ==
  /\ pc = "returned"
  /\ bestResult.summary.failed = 0
  /\ Len(bestResult.allResults) > 0
  /\ bestResult.summary.retryMetadata.individualRetryUsed
  /\ failedCompanies = <<>>
  /\ IndividualFetches = <<>>

\* the fetches issued by the batch attempts of the run
AllBatchFetches == SelectSeq(fetchLog, LAMBDA fetch : fetch.phase = "batch")

\* the number of companies of the requested origin in the roster file
RosterSize == IF FindOrigin(authData, origin) = NULL THEN 0 ELSE Len(Roster)

Terminated == pc \in {"returned", "thrown"}

\* the fetches issued so far are within the bounds of the run
WithinFetchBounds ==
  /\ Len(AllBatchFetches) <= options.maxRetries * RosterSize
  /\ Len(IndividualFetches) <= Len(failedCompanies)
  /\ Len(failedCompanies) <= RosterSize
  /\ \A m, n \in 1..Len(IndividualFetches) :
       m # n => IndividualFetches[m].companyId # IndividualFetches[n].companyId
  /\ IdSet(IndividualFetches) \subseteq IdSet(failedCompanies)

\* C37: when every fetch settles, every run of runOriginAnalysisWithRetry
\* terminates (it returns or throws), and when it has terminated it has
\* issued, over a roster of N companies, at most maxRetries * N fetches in
\* its batch attempts and, in the individual phase, at most one fetch per
\* company of the retained failure list.  (Fetches are only ever added to
\* the record of the run, so the bounds hold at every earlier moment too.)
C37_TerminatesWithinBounds == <>(Terminated /\ WithinFetchBounds)

\* a run over two companies that used its three attempts and retried both
\* companies individually: both bounds are attained, and the run has returned
C37_Witness ==
  /\ pc = "returned"
  /\ options.maxRetries = MaxRetriesBound
  /\ RosterSize = MaxRoster
  /\ Len(AllBatchFetches) = MaxRetriesBound * MaxRoster
  /\ Len(IndividualFetches) = MaxRoster
  /\ Len(failedCompanies) = MaxRoster

\* C38: processing a batch that was already processed changes none of its
\* three result arrays; and the processing that follows the merge of the
\* individual retries leaves every company that was in successfulResults
\* before the merge where it was, with the same drivers and the same logs
\* in the same order.
C38_ReducedStaysReduced ==
  /\ fn = "processAgain" => \A key \in ResultKeys : ret[key] = arg[key]
  /\ fn = "mergeIndividualRetries" =>
       /\ Len(ret.successfulResults) >= Len(arg.successfulResults)
       /\ SubSeq(ret.successfulResults, 1, Len(arg.successfulResults))
            = arg.successfulResults

\* a processed batch with a company whose driver holds the merged and
\* filtered logs of two records was merged with a recovered company and
\* processed again: the company is as it was, the recovered one follows it
C38_Witness ==
  /\ fn = "mergeIndividualRetries"
  /\ Len(arg.successfulResults) = 1
  /\ Len(ret.successfulResults) = 2
  /\ ret.successfulResults[2].ref[1] = 0
  /\ ret.successfulResults[1] = arg.successfulResults[1]
  /\ Len(arg.successfulResults[1].data) = 1
  /\ arg.successfulResults[1].data[1].logs
       = <<Log(<<"REAL EVENT">>), Log(<<"FORM ERROR">>)>>

\* the sum of the counters of the first n rules of ERROR_FILTERS
RECURSIVE RemovedByRules(_, _)
RemovedByRules(warningsRemoved, n) ==
  IF n = 0 THEN 0
  ELSE warningsRemoved[ERROR_FILTERS[n].key] + RemovedByRules(warningsRemoved, n - 1)

\* the statistics the call that was made has left, if it leaves any
StatsLeft ==
  IF fn = "filterErrorMessages" THEN {ret.stats}
  ELSE IF /\ fn \in {"processSmartAnalyzeResults", "processAgain",
                      "mergeIndividualRetries"}
          /\ "processingStats" \in DOMAIN ret.summary
         THEN {ret.summary.processingStats}
  ELSE {}

\* C39: after a pass of filterErrorMessages or of the whole processor, the
\* counters of the rules add up to totalLogsRemoved, and totalLogsRemoved is
\* at most totalLogsProcessed.
C39_CountersAddUp ==
  \A stats \in StatsLeft :
    /\ RemovedByRules(stats.warningsRemoved, Len(ERROR_FILTERS)) = stats.totalLogsRemoved
    /\ stats.totalLogsRemoved <= stats.totalLogsProcessed
    /\ \A k \in FilterKeys : stats.warningsRemoved[k] >= 0

\* a pass of the processor that removed logs under two rules and kept others
C39_Witness ==
  /\ fn = "processSmartAnalyzeResults"
  /\ \E stats \in StatsLeft :
       /\ stats.warningsRemoved["odometerError"] > 0
       /\ stats.warningsRemoved["speedMuchHigherThanLimit"] > 0
       /\ stats.totalLogsRemoved
            = stats.warningsRemoved["odometerError"]
                + stats.warningsRemoved["speedMuchHigherThanLimit"]
       /\ stats.totalLogsRemoved < stats.totalLogsProcessed

\* the entry analyzeAllOrigins must hold for tenant k, given how its run ended
EntryFor(k) ==
  IF cron.settled[k].state = "resolved"
    THEN [origin |-> heroOrigins[k].origin, success |-> TRUE,
          data |-> cron.settled[k].data]
    ELSE [origin |-> heroOrigins[k].origin, success |-> FALSE,
          error |-> cron.settled[k].err.message]

\* C40: analyzeAllOrigins runs the tenants strictly one after another, in the
\* order of heroOrigins: at most one run is in progress, and the run of a
\* tenant is started only when every earlier run has returned or thrown.  A
\* run that throws is recorded as a failed entry and the tenants after it
\* are still run: what is returned holds exactly one entry per tenant, in
\* order, and summary.successful + summary.failed = summary.totalOrigins.
C40_OneTenantAtATime ==
  /\ Cardinality(cron.running) <= 1
  /\ cron.started = [k \in 1..Len(cron.started) |-> heroOrigins[k].origin]
  /\ Len(cron.settled) = Len(cron.started) - Cardinality(cron.running)
  /\ cron.running \subseteq {Len(cron.started)}
  /\ cron.results = [k \in 1..Len(cron.settled) |-> EntryFor(k)]
  /\ cron.pc = "returned" =>
       /\ cron.returned.results = cron.results
       /\ Len(cron.returned.results) = Len(heroOrigins)
       /\ cron.returned.summary.totalOrigins = Len(heroOrigins)
       /\ cron.returned.summary.successful + cron.returned.summary.failed
            = cron.returned.summary.totalOrigins
       /\ cron.returned.summary.failed
            = Cardinality({k \in 1..Len(cron.settled) : cron.settled[k].state = "rejected"})

\* the run of the second tenant threw, the tenants after it were run all the
\* same, and analyzeAllOrigins returned five entries, one of them failed
C40_Witness ==
  /\ cron.pc = "returned"
  /\ cron.settled[2].state = "rejected"
  /\ \A k \in {1, 3, 4, 5} : cron.settled[k].state = "resolved"
  /\ ~cron.returned.results[2].success
  /\ cron.returned.results[5].success
  /\ cron.returned.summary.successful = 4
  /\ cron.returned.summary.failed = 1

====
